---------------------------- MODULE Spec2Model ----------------------------
(***************************************************************************)
(* Touch-typing practice application: the session scorer                   *)
(* (app/api/analyze-session/route.ts), the text normalizer                 *)
(* (generate-text route, cleanAndPadWords / ensureAllLetters), the         *)
(* performance aggregator (aggregatedPerformance of the Home page), the    *)
(* session state machine of the Home page (loadNewChallenge,               *)
(* handleComplete, preloadNextText, fetchText) and the keystroke recorder  *)
(* (TypingInterface: handleKeyDown, the countdown, the completion).        *)
(*                                                                         *)
(* Characters are one-letter strings; a word is a sequence of characters.  *)
(* Numbers are exact: Math.round(n/d) is computed on the rational n/d.     *)
(***************************************************************************)
EXTENDS Integers, Sequences, FiniteSets, TLC

VARIABLES
    request,       \* body of the POST /api/analyze-session request
    response,      \* what that route answered ([status |-> 0] before it ran)
    generation,    \* what generateText does in the generate-text route
    textResponse,  \* what the generate-text route answered
    challenges,    \* the challenges state of the Home page, newest first
    performance,   \* the aggregatedPerformance memo of the Home page
    isVerified,        \* Home: the visitor passed the bot detection
    sessionState,      \* Home: "loading", "ready", "analyzing" or "results"
    currentText,       \* Home: the text presented
    currentResult,     \* Home: the result shown, or null
    preloadedTextRef,  \* Home: the prefetched text, or null
    isPreloadingRef,   \* Home: the in-flight guard of preloadNextText
    textFetches,       \* the fetchText calls of loadNewChallenge in flight
    prefetches,        \* the fetchText calls of preloadNextText in flight
    analyses,          \* the analyze-session requests of handleComplete in flight
    hasStarted,        \* TypingInterface: the start signal was given
    timeLeft,          \* TypingInterface: seconds left on the countdown
    startTime,         \* TypingInterface: clock reading at the start, if set
    currentWordIndex,  \* TypingInterface: index of the current word (from 0)
    currentCharIndex,  \* TypingInterface: index of the cursor in the word
    typedChars,        \* TypingInterface: the characters typed, per word
    keystrokesRef      \* TypingInterface: the keystroke log (state and its ref)

scorerVars == <<request, response>>
normalizerVars == <<generation, textResponse>>
aggregatorVars == <<challenges, performance>>
homeVars ==
    <<isVerified, sessionState, currentText, currentResult, preloadedTextRef,
      isPreloadingRef, textFetches, prefetches, analyses>>
recorderVars ==
    <<timeLeft, startTime, currentWordIndex, currentCharIndex, typedChars, keystrokesRef>>
typingVars == <<hasStarted, recorderVars>>
vars ==
    <<request, response, generation, textResponse, challenges, performance,
      homeVars, typingVars>>

(***************************************************************************)
(* Bounds of the model.                                                    *)
(***************************************************************************)
MaxKeystrokes == 3      \* longest keystroke log of the general input family
MaxErrors == 6          \* longest log of the mistyped-keys input family
MaxRun == 300           \* longest run of correct keystrokes
MaxPieces == 3          \* most pieces of a generated text
MaxChallenges == 3      \* most challenges of the aggregator inputs
MaxSessions == 2        \* most sessions completed on the Home page
MaxLog == 4             \* longest keystroke log of a recorded session
ClockResolution == 30   \* seconds to which the log's timestamps are read
MaxRecorded == 3        \* longest log of an analysed session

(***************************************************************************)
(* JavaScript helpers.                                                     *)
(***************************************************************************)
Min(a, b) == IF a <= b THEN a ELSE b

\* Mutant of MathRound: Math.floor in place of Math.round.
MathRoundDown(num, den) == num \div den

\* Math.round(num / den) for den > 0: the nearest integer, halves go up
\* (Math.round(-0.5) is 0, Math.round(1.5) is 2).
MathRound(num, den) == (2 * num + den) \div (2 * den)

\* Mutant of toLowerCase: the character is left as it is.
toLowerCaseOmitted(c) == c

\* String.prototype.toLowerCase on one character.
toLowerCase(c) ==
    CASE c = "A" -> "a"
      [] c = "B" -> "b"
      [] c = "Q" -> "q"
      [] c = "Z" -> "z"
      [] OTHER -> c

\* Array.prototype.slice(0, n)
Slice(s, n) == SubSeq(s, 1, Min(n, Len(s)))

\* Array.prototype.reduce((a, b) => a + b, 0)
RECURSIVE Sum(_)
Sum(s) == IF s = <<>> THEN 0 ELSE Head(s) + Sum(Tail(s))

\* Array.prototype.includes / String.prototype.includes for one character.
Includes(s, c) == \E i \in 1..Len(s) : s[i] = c

\* words.join(" "), the words lo..hi joined by halves.
RECURSIVE JoinRange(_, _, _)
JoinRange(words, lo, hi) ==
    IF lo > hi THEN <<>>
    ELSE IF lo = hi THEN words[lo]
    ELSE LET mid == (lo + hi) \div 2
         IN  JoinRange(words, lo, mid) \o <<" ">> \o JoinRange(words, mid + 1, hi)

JoinWords(words) == JoinRange(words, 1, Len(words))

(***************************************************************************)
(* Session scorer: POST /api/analyze-session.                              *)
(***************************************************************************)
totalKeystrokes(keystrokes) == Len(keystrokes)

correctKeystrokes(keystrokes) ==
    Len(SelectSeq(keystrokes, LAMBDA k : k.isCorrect))

\* Mutant of accuracy: an empty log counts as perfect.
accuracyPerfectWhenEmpty(keystrokes) ==
    IF totalKeystrokes(keystrokes) > 0
    THEN MathRound(correctKeystrokes(keystrokes) * 100, totalKeystrokes(keystrokes))
    ELSE 100

accuracy(keystrokes) ==
    IF totalKeystrokes(keystrokes) > 0
    THEN MathRound(correctKeystrokes(keystrokes) * 100, totalKeystrokes(keystrokes))
    ELSE 0

\* Mutant of charactersTyped: Backspace keystrokes are counted too.
charactersTypedWithDeletes(keystrokes) == Len(keystrokes)

charactersTyped(keystrokes) ==
    Len(SelectSeq(keystrokes, LAMBDA k : k.key # "Backspace"))

\* Mutant of wpm: one keystroke counts as one word.
wpmPerKeystroke(keystrokes, timeElapsed) ==
    IF timeElapsed > 0
    THEN MathRound(charactersTyped(keystrokes) * 60, timeElapsed)
    ELSE 0

\* timeInMinutes = timeElapsed / 60 is positive exactly when timeElapsed is;
\* (charactersTyped / 5) / (timeElapsed / 60) = charactersTyped * 60 / (5 * timeElapsed).
wpm(keystrokes, timeElapsed) ==
    IF timeElapsed > 0
    THEN MathRound(charactersTyped(keystrokes) * 60, 5 * timeElapsed)
    ELSE 0

\* Position of the entry for key in the keyErrors object, 0 when absent.
EntryOf(entries, key) ==
    IF \E p \in 1..Len(entries) : entries[p].key = key
    THEN CHOOSE p \in 1..Len(entries) : entries[p].key = key
    ELSE 0

\* One iteration of the loop over keystrokes[i] (1-based here); the keyErrors
\* object is the sequence of its entries in insertion order, which is the
\* order Object.entries lists them in (keys are letters or "", never
\* integer-like).
keyErrorsStep(keystrokes, i, entries) ==
    LET k == keystrokes[i] IN
    IF ~k.isCorrect /\ k.key # "Backspace"
    THEN LET key == toLowerCase(k.expected)
             created == IF EntryOf(entries, key) = 0
                        THEN Append(entries, [key |-> key, errors |-> 0, delays |-> <<>>])
                        ELSE entries
             p == EntryOf(created, key)
             counted == [created EXCEPT ![p].errors = @ + 1]
         IN  IF i > 1
             THEN [counted EXCEPT ![p].delays =
                       Append(@, k.timestamp - keystrokes[i - 1].timestamp)]
             ELSE counted
    ELSE entries

\* The iterations lo..hi of the loop, in order.  The range is halved, and
\* entries is looked at first (Len(entries) >= 0 always holds), so that the
\* evaluation of a long log stays shallow.
RECURSIVE keyErrorsLoop(_, _, _, _)
keyErrorsLoop(keystrokes, lo, hi, entries) ==
    IF Len(entries) >= 0 /\ lo < hi
    THEN LET mid == (lo + hi) \div 2
         IN  keyErrorsLoop(keystrokes, mid + 1, hi,
                           keyErrorsLoop(keystrokes, lo, mid, entries))
    ELSE IF lo = hi THEN keyErrorsStep(keystrokes, lo, entries)
    ELSE entries

keyErrors(keystrokes) == keyErrorsLoop(keystrokes, 1, Len(keystrokes), <<>>)

\* Mutant of avgDelay: the mean is truncated, not rounded.
avgDelayTruncated(delays) ==
    IF Len(delays) > 0 THEN Sum(delays) \div Len(delays) ELSE 0

avgDelay(delays) ==
    IF Len(delays) > 0 THEN MathRound(Sum(delays), Len(delays)) ELSE 0

\* Mutant of InsertByErrorCount: e goes in front of the elements with the
\* same errorCount (the sort reverses ties).
InsertBeforeEqualCount(sorted, e) ==
    LET n == Cardinality({p \in 1..Len(sorted) : sorted[p].errorCount > e.errorCount})
    IN  SubSeq(sorted, 1, n) \o <<e>> \o SubSeq(sorted, n + 1, Len(sorted))

\* Array.prototype.sort((a, b) => b.errorCount - a.errorCount): a stable sort,
\* descending by errorCount.  InsertByErrorCount puts e behind every element
\* whose errorCount is not smaller.
InsertByErrorCount(sorted, e) ==
    LET n == Cardinality({p \in 1..Len(sorted) : sorted[p].errorCount >= e.errorCount})
    IN  SubSeq(sorted, 1, n) \o <<e>> \o SubSeq(sorted, n + 1, Len(sorted))

RECURSIVE SortLoop(_, _, _)
SortLoop(s, i, sorted) ==
    IF i > Len(s) THEN sorted
    ELSE SortLoop(s, i + 1, InsertByErrorCount(sorted, s[i]))

sortByErrorCount(s) == SortLoop(s, 1, <<>>)

TopStrugglingKeys == 5

strugglingKeys(keystrokes) ==
    LET entries == keyErrors(keystrokes)
        mapped == [p \in 1..Len(entries) |->
                      [key        |-> entries[p].key,
                       errorCount |-> entries[p].errors,
                       avgDelay   |-> avgDelay(entries[p].delays)]]
    IN  Slice(sortByErrorCount(mapped), TopStrugglingKeys)

ExcellentAccuracy == 95

\* The insight text: the generated one, or the template of the catch block.
aiInsights(acc, generated) ==
    IF generated THEN "generated"
    ELSE IF acc >= ExcellentAccuracy
         THEN "Excellent accuracy! Try increasing your speed gradually."
         ELSE "Focus on accuracy first, speed will follow with practice."

\* The JSON the route returns for a well-formed body.
SessionResult(body, generated) ==
    [status            |-> 200,
     wpm               |-> wpm(body.keystrokes, body.timeElapsed),
     accuracy          |-> accuracy(body.keystrokes),
     strugglingKeys    |-> strugglingKeys(body.keystrokes),
     totalKeystrokes   |-> totalKeystrokes(body.keystrokes),
     correctKeystrokes |-> correctKeystrokes(body.keystrokes),
     timeElapsed       |-> body.timeElapsed,
     completedWords    |-> body.completedWords,
     totalWords        |-> body.totalWords,
     aiInsights        |-> aiInsights(accuracy(body.keystrokes), generated)]

NoResponse == [status |-> 0]
ErrorResponse == [status |-> 500, error |-> "Failed to analyze session"]

\* POST: request.json() throws on a malformed body and the outer catch
\* answers 500; otherwise the result is computed, with the insight text of
\* generateText or, when that throws, of the template.
AnalyzeSessionPOST ==
    /\ response = NoResponse
    /\ \/ /\ request.malformed
          /\ response' = ErrorResponse
       \/ /\ ~request.malformed
          /\ \E generated \in BOOLEAN :
                response' = SessionResult(request, generated)
    /\ UNCHANGED <<request, normalizerVars, aggregatorVars, homeVars, typingVars>>

(***************************************************************************)
(* Text normalizer: cleanAndPadWords and ensureAllLetters of the           *)
(* generate-text route.                                                    *)
(***************************************************************************)
alphabetCoverageWords ==
    [q |-> <<<<"q","u","i","c","k">>, <<"q","u","i","e","t">>, <<"q","u","e","e","n">>, <<"q","u","i","z">>, <<"q","u","o","t","e">>>>,
     x |-> <<<<"b","o","x">>, <<"f","o","x">>, <<"m","i","x">>, <<"f","i","x">>, <<"n","e","x","t">>, <<"t","e","x","t">>, <<"e","x","a","m">>>>,
     z |-> <<<<"z","e","r","o">>, <<"z","o","n","e">>, <<"s","i","z","e">>, <<"m","a","z","e">>, <<"j","a","z","z">>, <<"f","i","z","z">>, <<"b","u","z","z">>>>,
     j |-> <<<<"j","u","s","t">>, <<"j","u","m","p">>, <<"j","o","i","n">>, <<"j","o","b">>, <<"j","o","y">>, <<"m","a","j","o","r">>>>,
     k |-> <<<<"k","e","e","p">>, <<"k","n","o","w">>, <<"k","i","n","d">>, <<"k","e","y">>, <<"k","i","c","k">>, <<"m","a","k","e">>, <<"t","a","k","e">>>>,
     v |-> <<<<"v","e","r","y">>, <<"h","a","v","e">>, <<"g","i","v","e">>, <<"l","i","v","e">>, <<"m","o","v","e">>, <<"o","v","e","r">>, <<"v","i","e","w">>>>,
     w |-> <<<<"w","i","t","h">>, <<"w","i","l","l">>, <<"w","o","r","k">>, <<"w","a","n","t">>, <<"w","a","y">>, <<"n","e","w">>, <<"n","o","w">>>>]

fallbackWords == <<
    <<"t","h","e">>, <<"a","n","d">>, <<"f","o","r">>, <<"a","r","e">>,
    <<"b","u","t">>, <<"n","o","t">>, <<"y","o","u">>, <<"a","l","l">>,
    <<"c","a","n">>, <<"h","a","d">>, <<"h","e","r">>, <<"w","a","s">>,
    <<"o","n","e">>, <<"o","u","r">>, <<"o","u","t">>, <<"d","a","y">>,
    <<"g","e","t">>, <<"h","a","s">>, <<"h","i","m">>, <<"h","i","s">>,
    <<"h","o","w">>, <<"i","t","s">>, <<"m","a","y">>, <<"n","e","w">>,
    <<"n","o","w">>, <<"o","l","d">>, <<"s","e","e">>, <<"w","a","y">>,
    <<"w","h","o">>, <<"b","o","y">>, <<"d","i","d">>, <<"l","e","t">>,
    <<"p","u","t">>, <<"s","a","y">>, <<"s","h","e">>, <<"t","o","o">>,
    <<"u","s","e">>, <<"a","d","d">>, <<"a","g","o">>, <<"a","i","r">>,
    <<"a","l","s","o">>, <<"a","s","k">>, <<"b","a","c","k">>,
    <<"b","e","e","n">>, <<"b","e","s","t">>, <<"b","i","g">>,
    <<"b","o","t","h">>, <<"c","a","l","l">>, <<"c","a","m","e">>,
    <<"c","o","m","e">>, <<"c","o","u","l","d">>, <<"d","o","w","n">>,
    <<"e","a","c","h">>, <<"e","n","d">>, <<"e","v","e","n">>,
    <<"f","e","w">>, <<"f","i","n","d">>, <<"f","i","r","s","t">>,
    <<"f","r","o","m">>, <<"g","i","v","e">>, <<"g","o","o","d">>,
    <<"g","r","e","a","t">>, <<"h","a","n","d">>, <<"h","a","v","e">>,
    <<"h","e","l","p">>, <<"h","e","r","e">>, <<"h","i","g","h">>,
    <<"h","o","m","e">>, <<"j","u","s","t">>, <<"k","e","e","p">>,
    <<"k","i","n","d">>, <<"k","n","o","w">>, <<"l","a","s","t">>,
    <<"l","e","f","t">>, <<"l","i","f","e">>, <<"l","i","k","e">>,
    <<"l","i","n","e">>, <<"l","i","v","e">>, <<"l","o","n","g">>,
    <<"l","o","o","k">>, <<"m","a","d","e">>, <<"m","a","k","e">>,
    <<"m","a","n","y">>, <<"m","o","r","e">>, <<"m","o","s","t">>,
    <<"m","u","c","h">>, <<"m","u","s","t">>, <<"n","a","m","e">>,
    <<"n","e","e","d">>, <<"n","e","x","t">>, <<"o","n","l","y">>,
    <<"o","p","e","n">>, <<"o","v","e","r">>, <<"o","w","n">> >>

alphabet ==
    <<"a","b","c","d","e","f","g","h","i","j","k","l","m",
      "n","o","p","q","r","s","t","u","v","w","x","y","z">>

\* The words of the fallbackText of the catch blocks of POST and GET.
fallbackTextWords == <<
    <<"t","h","e">>, <<"q","u","i","c","k">>, <<"b","r","o","w","n">>,
    <<"f","o","x">>, <<"j","u","m","p","s">>, <<"o","v","e","r">>,
    <<"l","a","z","y">>, <<"d","o","g">>, <<"a","n","d">>,
    <<"r","u","n","s">>, <<"a","w","a","y">>, <<"i","n","t","o">>,
    <<"f","o","r","e","s","t">>, <<"w","h","e","r","e">>,
    <<"m","a","n","y">>, <<"a","n","i","m","a","l","s">>,
    <<"l","i","v","e">>, <<"t","o","g","e","t","h","e","r">>, <<"i","n">>,
    <<"p","e","a","c","e">>, <<"u","n","d","e","r">>, <<"t","a","l","l">>,
    <<"t","r","e","e","s">>, <<"t","h","a","t">>,
    <<"p","r","o","v","i","d","e">>, <<"s","h","a","d","e">>,
    <<"f","r","o","m">>, <<"h","o","t">>, <<"s","u","m","m","e","r">>,
    <<"s","u","n">>, <<"w","h","i","l","e">>, <<"b","i","r","d","s">>,
    <<"s","i","n","g">>, <<"t","h","e","i","r">>, <<"s","w","e","e","t">>,
    <<"s","o","n","g","s">>, <<"h","i","g","h">>, <<"a","b","o","v","e">>,
    <<"b","r","a","n","c","h","e","s">>, <<"w","h","e","r","e">>,
    <<"t","h","e","y">>, <<"b","u","i","l","d">>, <<"n","e","s","t","s">>,
    <<"t","o">>, <<"r","a","i","s","e">>, <<"y","o","u","n","g">>,
    <<"o","n","e","s">>, <<"w","h","o">>, <<"w","i","l","l">>,
    <<"s","o","o","n">>, <<"l","e","a","r","n">>, <<"f","l","y">>,
    <<"e","x","p","l","o","r","e">>, <<"w","o","r","l","d">>,
    <<"b","e","y","o","n","d">>, <<"h","o","m","e">>, <<"t","h","i","s">>,
    <<"b","e","a","u","t","i","f","u","l">>, <<"n","a","t","u","r","a","l">>,
    <<"p","l","a","c","e">>, <<"w","i","t","h">>,
    <<"a","m","a","z","i","n","g">>, <<"v","i","e","w","s">>,
    <<"a","n","d">>, <<"e","x","c","i","t","i","n","g">>,
    <<"j","o","u","r","n","e","y","s">>, <<"t","h","r","o","u","g","h">>,
    <<"v","a","s","t">>, <<"o","p","e","n">>, <<"s","p","a","c","e","s">> >>

fallbackText == JoinWords(fallbackTextWords)

TargetWords == 90       \* .slice(0, 90), while (words.length < 90)
MaxWordLength == 10     \* word.length <= 10
SlotSpread == 10        \* Math.floor(Math.random() * 10)

\* Mutant of getMissingLetters: "z" counts as missing whatever the text holds.
getMissingLettersAlwaysZ(text) ==
    LET textLower == [i \in 1..Len(text) |-> toLowerCase(text[i])]
    IN  SelectSeq(alphabet, LAMBDA letter : ~Includes(textLower, letter) \/ letter = "z")

\* getMissingLetters: the letters of the alphabet, in order, that the
\* lowercased text does not include.
getMissingLetters(text) ==
    LET textLower == [i \in 1..Len(text) |-> toLowerCase(text[i])]
    IN  SelectSeq(alphabet, LAMBDA letter : ~Includes(textLower, letter))

\* fallbackWords.find((w) => w.includes(letter)): the position of the first
\* fallback word with the letter, 0 when there is none (undefined).
findFallbackWord(letter) ==
    LET found == {p \in 1..Len(fallbackWords) : Includes(fallbackWords[p], letter)}
    IN  IF found = {} THEN 0 ELSE CHOOSE p \in found : \A o \in found : p <= o

\* Mutant of coverLetter: the slot is not moved to the middle of the list.
coverLetterAtStart(result, letter, rnd) ==
    LET insertIndex == rnd.slot IN
    IF letter \in DOMAIN alphabetCoverageWords /\ Len(alphabetCoverageWords[letter]) > 0
    THEN LET wordToAdd == alphabetCoverageWords[letter][rnd.pick + 1]
         IN  IF insertIndex < Len(result)
             THEN [result EXCEPT ![insertIndex + 1] = wordToAdd]
             ELSE Append(result, wordToAdd)
    ELSE LET found == findFallbackWord(letter)
         IN  IF found # 0 /\ insertIndex < Len(result)
             THEN [result EXCEPT ![insertIndex + 1] = fallbackWords[found]]
             ELSE result

\* One iteration of the loop over the missing letters.  rnd holds what the
\* calls of Math.random() of this iteration come to: slot is
\* Math.floor(Math.random() * 10), pick is
\* Math.floor(Math.random() * coverageWords.length).  Array indices are
\* 0-based in the code and 1-based here.
coverLetter(result, letter, rnd) ==
    LET insertIndex == (Len(result) \div 2) + rnd.slot IN
    IF letter \in DOMAIN alphabetCoverageWords /\ Len(alphabetCoverageWords[letter]) > 0
    THEN LET wordToAdd == alphabetCoverageWords[letter][rnd.pick + 1]
         IN  IF insertIndex < Len(result)
             THEN [result EXCEPT ![insertIndex + 1] = wordToAdd]
             ELSE Append(result, wordToAdd)
    ELSE LET found == findFallbackWord(letter)
         IN  IF found # 0 /\ insertIndex < Len(result)
             THEN [result EXCEPT ![insertIndex + 1] = fallbackWords[found]]
             ELSE result

RECURSIVE coverLoop(_, _, _, _)
coverLoop(result, missing, m, rnds) ==
    IF m > Len(missing) THEN result
    ELSE coverLoop(coverLetter(result, missing[m], rnds[m]), missing, m + 1, rnds)

\* The values the random numbers of one iteration can take.
RandomDraws(letter) ==
    IF letter \in DOMAIN alphabetCoverageWords /\ Len(alphabetCoverageWords[letter]) > 0
    THEN [slot : 0..(SlotSpread - 1), pick : 0..(Len(alphabetCoverageWords[letter]) - 1)]
    ELSE [slot : 0..(SlotSpread - 1), pick : {0}]

\* ensureAllLetters(words): the set of the results the random numbers allow.
ensureAllLetters(words) ==
    LET text == JoinWords(words)
        missing == getMissingLetters(text)
    IN  IF Len(missing) = 0 THEN {words}
        ELSE {Slice(coverLoop(words, missing, 1, rnds), TargetWords) :
                 rnds \in {r \in [1..Len(missing) -> [slot : 0..(SlotSpread - 1), pick : 0..6]] :
                              \A m \in 1..Len(missing) : r[m] \in RandomDraws(missing[m])}}

\* .replace(/[^a-z\s]/g, ""): only lowercase letters and whitespace stay.
IsWhitespace(c) == c \in {" ", "\n", "\t"}

\* Mutant of stripNonLetters: nothing is stripped.
stripNothing(text) == text

stripNonLetters(text) ==
    SelectSeq(text, LAMBDA c : Includes(alphabet, c) \/ IsWhitespace(c))

\* .split(/\s+/): the pieces between the runs of whitespace; a run at the
\* start or the end of the text leaves an empty piece there.  With r runs
\* there are r + 1 pieces, and piece k holds the characters that have k - 1
\* runs before them.
splitWhitespace(text) ==
    LET runStarts == {i \in 1..Len(text) :
                         /\ IsWhitespace(text[i])
                         /\ (i = 1 \/ ~IsWhitespace(text[i - 1]))}
        runsBefore == [i \in 1..Len(text) |-> Cardinality({r \in runStarts : r < i})]
        piece(k) ==
            LET at == {i \in 1..Len(text) : ~IsWhitespace(text[i]) /\ runsBefore[i] = k - 1}
            IN  IF at = {} THEN <<>>
                ELSE SubSeq(text, CHOOSE i \in at : \A o \in at : i <= o,
                                  CHOOSE i \in at : \A o \in at : o <= i)
    IN  [k \in 1..(Cardinality(runStarts) + 1) |-> piece(k)]

\* The cleaned words: lowercased, stripped, split, the empty and the long
\* ones dropped, the first 90 kept.
cleanWords(text) ==
    LET lowered == [i \in 1..Len(text) |-> toLowerCase(text[i])]
        pieces == splitWhitespace(stripNonLetters(lowered))
    IN  Slice(SelectSeq(pieces, LAMBDA word : Len(word) > 0 /\ Len(word) <= MaxWordLength),
              TargetWords)

\* Mutant of padWords: the padding starts at the first fallback word.
padWordsFromFirst(words) ==
    IF Len(words) < TargetWords
    THEN [i \in 1..TargetWords |->
             IF i <= Len(words) THEN words[i]
             ELSE fallbackWords[((i - Len(words) - 1) % Len(fallbackWords)) + 1]]
    ELSE words

\* while (words.length < 90) words.push(fallbackWords[words.length % fallbackWords.length]):
\* the word pushed at length n (0-based position n, position n + 1 here) is
\* fallbackWords[n % fallbackWords.length].
padWords(words) ==
    IF Len(words) < TargetWords
    THEN [i \in 1..TargetWords |->
             IF i <= Len(words) THEN words[i]
             ELSE fallbackWords[((i - 1) % Len(fallbackWords)) + 1]]
    ELSE words

\* cleanAndPadWords(text): the set of the results ensureAllLetters allows.
cleanAndPadWords(text) == ensureAllLetters(padWords(cleanWords(text)))

\* The generate-text route (POST and GET): the words of the generated text,
\* or of fallbackText when generateText throws.
GenerateText ==
    /\ textResponse = NoResponse
    /\ \E words \in cleanAndPadWords(IF generation.throws THEN fallbackText
                                     ELSE generation.text) :
          textResponse' = [status |-> 200, words |-> words]
    /\ UNCHANGED <<generation, scorerVars, aggregatorVars, homeVars, typingVars>>

(***************************************************************************)
(* Performance aggregator: aggregatedPerformance of the Home page.         *)
(***************************************************************************)
null == [null |-> TRUE]

\* The challenges with a result, in list order (if (!challenge.result) continue).
scoredChallenges(list) == SelectSeq(list, LAMBDA challenge : challenge.result # null)

\* Mutant of sessionCount: challenges without a result are counted too.
sessionCountAll(list) == Len(list)

sessionCount(list) == Len(scoredChallenges(list))

RECURSIVE totalAccuracy(_)
totalAccuracy(scored) ==
    IF scored = <<>> THEN 0 ELSE Head(scored).result.accuracy + totalAccuracy(Tail(scored))

RECURSIVE totalWpm(_)
totalWpm(scored) ==
    IF scored = <<>> THEN 0 ELSE Head(scored).result.wpm + totalWpm(Tail(scored))

\* Mutant of addKeyErrors: a key seen again has its count replaced.
addKeyErrorsOverwriting(entries, sk) ==
    IF EntryOf(entries, sk.key) = 0
    THEN Append(entries, [key |-> sk.key, errorCount |-> sk.errorCount])
    ELSE [entries EXCEPT ![EntryOf(entries, sk.key)].errorCount = sk.errorCount]

\* keyErrorMap[sk.key] = (keyErrorMap[sk.key] || 0) + sk.errorCount, the map
\* being the sequence of its entries in insertion order.
addKeyErrors(entries, sk) ==
    IF EntryOf(entries, sk.key) = 0
    THEN Append(entries, [key |-> sk.key, errorCount |-> sk.errorCount])
    ELSE [entries EXCEPT ![EntryOf(entries, sk.key)].errorCount = @ + sk.errorCount]

RECURSIVE addAllKeyErrors(_, _)
addAllKeyErrors(entries, sks) ==
    IF sks = <<>> THEN entries
    ELSE addAllKeyErrors(addKeyErrors(entries, Head(sks)), Tail(sks))

RECURSIVE keyErrorMap(_, _)
keyErrorMap(scored, entries) ==
    IF scored = <<>> THEN entries
    ELSE keyErrorMap(Tail(scored), addAllKeyErrors(entries, Head(scored).result.strugglingKeys))

\* The expected characters of the mistyped keystrokes of one challenge
\* (!ks.isCorrect && ks.expected && ks.key !== "Backspace").
challengeErrors(challenge) ==
    LET mistyped == SelectSeq(challenge.keystrokes,
                        LAMBDA ks : ~ks.isCorrect /\ ks.expected # "" /\ ks.key # "Backspace")
    IN  [i \in 1..Len(mistyped) |-> mistyped[i].expected]

RECURSIVE allErrors(_)
allErrors(scored) ==
    IF scored = <<>> THEN <<>> ELSE challengeErrors(Head(scored)) \o allErrors(Tail(scored))

TopAggregatedKeys == 8
RecentErrorsKept == 50

\* Array.prototype.slice(-n)
LastN(s, n) == SubSeq(s, Len(s) - Min(n, Len(s)) + 1, Len(s))

aggregatedPerformance(list) ==
    IF Len(list) = 0 THEN null
    ELSE IF sessionCount(list) = 0 THEN null
    ELSE LET scored == scoredChallenges(list) IN
         [strugglingKeys |->
              Slice(sortByErrorCount(keyErrorMap(scored, <<>>)), TopAggregatedKeys),
          accuracy |-> MathRound(totalAccuracy(scored), sessionCount(list)),
          wpm |-> MathRound(totalWpm(scored), sessionCount(list)),
          recentErrors |-> LastN(allErrors(scored), RecentErrorsKept)]

\* setChallenges((prev) => [newChallenge, ...prev]); the memo follows.
AddChallenge(newChallenge) ==
    /\ challenges' = <<newChallenge>> \o challenges
    /\ performance' = aggregatedPerformance(challenges')
    /\ UNCHANGED <<scorerVars, normalizerVars, homeVars, typingVars>>

(***************************************************************************)
(* Session state machine of the Home page.                                 *)
(*                                                                         *)
(* A text is known by its kind and by the request that fetched it:         *)
(* "served" is an answer of the generate-text route, "fallback" the text   *)
(* fetchText returns when the request fails; source and sessions tell      *)
(* which call fetched it and how many sessions had been scored by then.    *)
(* A fetch in flight is the record of its request; what the route answers  *)
(* is chosen when it settles.                                              *)
(***************************************************************************)
SessionSeconds == 60

\* fetchText, the text of its catch branch, split(" ").
clientFallbackWords == <<
    <<"t","h","e">>, <<"q","u","i","c","k">>, <<"b","r","o","w","n">>,
    <<"f","o","x">>, <<"j","u","m","p","s">>, <<"o","v","e","r">>,
    <<"t","h","e">>, <<"l","a","z","y">>, <<"d","o","g">>,
    <<"a","n","d">>, <<"r","u","n","s">>, <<"i","n","t","o">>,
    <<"t","h","e">>, <<"f","o","r","e","s","t">>, <<"w","h","e","r","e">>,
    <<"a","n","i","m","a","l","s">>, <<"l","i","v","e">>, <<"i","n">>,
    <<"p","e","a","c","e">>, <<"u","n","d","e","r">>, <<"t","a","l","l">>,
    <<"t","r","e","e","s">>, <<"t","h","a","t">>, <<"g","i","v","e">>,
    <<"s","h","a","d","e">>, <<"f","r","o","m">>, <<"t","h","e">>,
    <<"h","o","t">>, <<"s","u","n">>, <<"w","h","i","l","e">>,
    <<"b","i","r","d","s">>, <<"s","i","n","g">>, <<"t","h","e","i","r">>,
    <<"s","o","n","g","s">>, <<"h","i","g","h">>, <<"a","b","o","v","e">>,
    <<"i","n">>, <<"b","r","a","n","c","h","e","s">>, <<"w","h","e","r","e">>,
    <<"t","h","e","y">>, <<"b","u","i","l","d">>, <<"n","e","s","t","s">>,
    <<"t","o">>, <<"r","a","i","s","e">>, <<"y","o","u","n","g">>,
    <<"o","n","e","s">>, <<"w","h","o">>, <<"w","i","l","l">>,
    <<"s","o","o","n">>, <<"f","l","y">>, <<"a","n","d">>,
    <<"e","x","p","l","o","r","e">>, <<"t","h","e">>, <<"w","o","r","l","d">>>>
\* What the route serves when generateText throws: its fallback text,
\* cleaned and padded (it already holds every letter).
servedWords == padWords(cleanWords(fallbackText))

\* The texts handed to a TypingInterface on its own.
shortWords ==
    [one |-> << <<"a">> >>,
     two |-> << <<"a", "b">>, <<"c">> >>,
     three |-> << <<"a">>, <<"b">>, <<"c">> >>]

Text(kind, source, sessions) == [kind |-> kind, source |-> source, sessions |-> sessions]

\* useState("")
NoText == Text("empty", "none", 0)

\* text.split(" ")
wordsOf(text) ==
    CASE text.kind = "served" -> servedWords
      [] text.kind = "fallback" -> clientFallbackWords
      [] text.kind = "empty" -> << <<>> >>
      [] OTHER -> shortWords[text.kind]

\* useState / useRef of Home
HomeMounted ==
    /\ isVerified = FALSE
    /\ sessionState = "loading"
    /\ currentText = NoText
    /\ currentResult = null
    /\ preloadedTextRef = null
    /\ isPreloadingRef = FALSE
    /\ textFetches = <<>>
    /\ prefetches = <<>>
    /\ analyses = <<>>

\* useState<number | null>(null): the start time not set, falsy like 0
NoStartTime == 0

\* useState of TypingInterface
RecorderMounted ==
    /\ hasStarted = FALSE
    /\ timeLeft = SessionSeconds
    /\ startTime = NoStartTime
    /\ currentWordIndex = 0
    /\ currentCharIndex = 0
    /\ typedChars = <<>>
    /\ keystrokesRef = <<>>

\* The TypingInterface is rendered in the states ready and typing; a state
\* that renders it anew mounts it with its initial state, and the state of
\* an unmounted one is never read again.
RecorderRendered == sessionState \in {"ready", "typing"}

MountRecorder ==
    /\ hasStarted' = FALSE
    /\ timeLeft' = SessionSeconds
    /\ startTime' = NoStartTime
    /\ currentWordIndex' = 0
    /\ currentCharIndex' = 0
    /\ typedChars' = <<>>
    /\ keystrokesRef' = <<>>

\* setSessionState("ready")
ShowReady ==
    /\ sessionState' = "ready"
    /\ IF RecorderRendered THEN UNCHANGED typingVars ELSE MountRecorder

Remove(s, i) == SubSeq(s, 1, i - 1) \o SubSeq(s, i + 1, Len(s))

\* The request fetchText(performanceData) sends: POST with the profile when
\* it lists struggling keys, GET otherwise.
fetchText(performanceData, sessions) ==
    [method   |-> IF performanceData # null /\ Len(performanceData.strugglingKeys) > 0
                  THEN "POST" ELSE "GET",
     performanceData |-> performanceData,
     sessions |-> sessions]

TextKinds == {"served", "fallback"}

\* loadNewChallenge with a prefetched text: it is shown at once.
\* Mutant of UsePreloaded: the text is left in the cache.
UsePreloadedKeepingCache ==
    /\ preloadedTextRef # null
    /\ currentResult' = null
    /\ currentText' = preloadedTextRef
    /\ preloadedTextRef' = preloadedTextRef
    /\ ShowReady
    /\ UNCHANGED textFetches

UsePreloaded ==
    /\ preloadedTextRef # null
    /\ currentResult' = null
    /\ currentText' = preloadedTextRef
    /\ preloadedTextRef' = null
    /\ ShowReady
    /\ UNCHANGED textFetches

\* loadNewChallenge without one, up to its await: the state is loading and a
\* text is fetched.  The effect "initial load after verification" runs
\* whenever sessionState becomes loading (it is one of its dependencies), so
\* a call that changes the state to loading is followed by a second call.
loadNewChallengeCalls == IF sessionState = "loading" THEN 1 ELSE 2

FetchNew ==
    /\ preloadedTextRef = null
    /\ currentResult' = null
    /\ sessionState' = "loading"
    /\ textFetches' = textFetches \o
           [c \in 1..loadNewChallengeCalls |-> fetchText(performance, Len(challenges))]
    /\ UNCHANGED <<currentText, preloadedTextRef, typingVars>>

loadNewChallenge == UsePreloaded \/ FetchNew

\* BotDetection calls onVerified; the effect loads the first challenge.
Verified ==
    /\ ~isVerified
    /\ isVerified' = TRUE
    /\ loadNewChallenge
    /\ UNCHANGED <<isPreloadingRef, prefetches, analyses>>
    /\ UNCHANGED <<scorerVars, normalizerVars, aggregatorVars>>

\* "start new test" of the results view
handleNewChallenge ==
    /\ sessionState = "results"
    /\ currentResult # null
    /\ loadNewChallenge
    /\ UNCHANGED <<isVerified, isPreloadingRef, prefetches, analyses>>
    /\ UNCHANGED <<scorerVars, normalizerVars, aggregatorVars>>

\* Math.round((Date.now() - startTime) / 1000), or 60 without a start time
ElapsedSeconds ==
    IF startTime = NoStartTime THEN {SessionSeconds}
    ELSE {SessionSeconds - timeLeft, SessionSeconds - timeLeft + 1}

\* The fetchText of a loadNewChallenge settles: the rest of loadNewChallenge.
\* A TypingInterface that stays rendered gets the new words, and its
\* completion effect runs again: a started session whose word index is not
\* below the number of the new words is handed to the new handleComplete.
TextFetchSettles(i, kind) ==
    /\ i \in 1..Len(textFetches)
    /\ LET text == Text(kind, "fetch", textFetches[i].sessions) IN
       /\ currentText' = text
       /\ IF RecorderRendered /\ hasStarted /\ currentWordIndex >= Len(wordsOf(text))
          THEN /\ sessionState' = "analyzing"
               /\ \E elapsed \in ElapsedSeconds :
                     analyses' = Append(analyses,
                         [body |-> [malformed      |-> FALSE,
                                    keystrokes     |-> keystrokesRef,
                                    timeElapsed    |-> elapsed,
                                    completedWords |-> currentWordIndex,
                                    totalWords     |-> Len(wordsOf(text))],
                          text |-> text])
               /\ UNCHANGED typingVars
          ELSE /\ ShowReady
               /\ UNCHANGED analyses
    /\ textFetches' = Remove(textFetches, i)
    /\ UNCHANGED <<isVerified, currentResult, preloadedTextRef, isPreloadingRef,
                   prefetches>>
    /\ UNCHANGED <<scorerVars, normalizerVars, aggregatorVars>>

\* Mutant of KeystrokeOf: a keystroke without a character is not correct.
KeystrokeOfTypedOnly(char, expected, timestamp, key, isCorrect, wordIndex, charIndex) ==
    [char |-> char, expected |-> expected, timestamp |-> timestamp, key |-> key,
     isCorrect |-> isCorrect /\ char # "", wordIndex |-> wordIndex, charIndex |-> charIndex]

\* A Keystroke as the TypingInterface records it.
KeystrokeOf(char, expected, timestamp, key, isCorrect, wordIndex, charIndex) ==
    [char |-> char, expected |-> expected, timestamp |-> timestamp, key |-> key,
     isCorrect |-> isCorrect, wordIndex |-> wordIndex, charIndex |-> charIndex]

\* handleComplete up to its await: the state is analyzing and the session
\* is sent to the scorer, with the text the callback closed over.
handleComplete(log, timeElapsed, completedWords) ==
    /\ sessionState' = "analyzing"
    /\ analyses' = Append(analyses,
           [body |-> [malformed      |-> FALSE,
                      keystrokes     |-> log,
                      timeElapsed    |-> timeElapsed,
                      completedWords |-> completedWords,
                      totalWords     |-> Len(wordsOf(currentText))],
            text |-> currentText])
    /\ UNCHANGED <<isVerified, currentText, currentResult, preloadedTextRef,
                   isPreloadingRef, textFetches, prefetches>>
    /\ UNCHANGED <<scorerVars, normalizerVars, aggregatorVars>>

\* currentKeyErrors of handleComplete, as the entries of the object in
\* insertion order.
currentKeyErrors(log) ==
    LET mistyped == SelectSeq(log,
                        LAMBDA ks : ~ks.isCorrect /\ ks.expected # "" /\ ks.key # "Backspace")
    IN  addAllKeyErrors(<<>>,
            [p \in 1..Len(mistyped) |->
                [key |-> toLowerCase(mistyped[p].expected), errorCount |-> 1]])

localAccuracy(log) ==
    IF Len(log) > 0
    THEN MathRound(100 * Len(SelectSeq(log, LAMBDA k : k.isCorrect)), Len(log))
    ELSE 0

localWpm(log, timeElapsed) ==
    IF timeElapsed > 0
    THEN MathRound(60 * Len(SelectSeq(log, LAMBDA k : k.key # "Backspace")),
                   5 * timeElapsed)
    ELSE 0

localStrugglingKeys(log) ==
    LET sorted == Slice(sortByErrorCount(currentKeyErrors(log)), TopStrugglingKeys)
    IN  [p \in 1..Len(sorted) |->
            [key |-> sorted[p].key, errorCount |-> sorted[p].errorCount, avgDelay |-> 0]]

\* The result computed in the catch branch of handleComplete.
fallbackResult(body) ==
    [wpm               |-> localWpm(body.keystrokes, body.timeElapsed),
     accuracy          |-> localAccuracy(body.keystrokes),
     strugglingKeys    |-> localStrugglingKeys(body.keystrokes),
     totalKeystrokes   |-> Len(body.keystrokes),
     correctKeystrokes |-> Len(SelectSeq(body.keystrokes, LAMBDA k : k.isCorrect)),
     timeElapsed       |-> body.timeElapsed,
     completedWords    |-> body.completedWords,
     totalWords        |-> body.totalWords,
     aiInsights        |-> "Keep practicing to improve your typing speed!"]

\* res.json() of an OK answer
jsonOf(answer) == [f \in DOMAIN answer \ {"status"} |-> answer[f]]

\* The profile the next text is prefetched with.
profileOf(keys, result) ==
    IF Len(keys) > 0
    THEN [strugglingKeys |-> [p \in 1..Len(keys) |->
                                 [key |-> keys[p].key, errorCount |-> keys[p].errorCount]],
          accuracy       |-> result.accuracy,
          wpm            |-> result.wpm,
          recentErrors   |-> <<>>]
    ELSE null

mergedStrugglingKeys(updated) ==
    Slice(sortByErrorCount(keyErrorMap(scoredChallenges(updated), <<>>)), TopAggregatedKeys)

\* Mutant of preloadNextText: the in-flight guard is not consulted.
preloadNextTextUnguarded(performanceData, sessions) ==
    /\ isPreloadingRef' = TRUE
    /\ prefetches' = Append(prefetches, fetchText(performanceData, sessions))

\* preloadNextText up to its await
preloadNextText(performanceData, sessions) ==
    IF isPreloadingRef
    THEN UNCHANGED <<isPreloadingRef, prefetches>>
    ELSE /\ isPreloadingRef' = TRUE
         /\ prefetches' = Append(prefetches, fetchText(performanceData, sessions))

AnalysisOutcomes == {"generated", "failed"}

\* Mutant of AnalysisSettles: the new challenge is put behind the others.
AnalysisSettlesAppending(i, outcome) ==
    /\ i \in 1..Len(analyses)
    /\ LET body == analyses[i].body
           result == IF outcome = "failed" THEN fallbackResult(body)
                     ELSE jsonOf(SessionResult(body, outcome = "generated"))
           newChallenge == [text |-> analyses[i].text, keystrokes |-> body.keystrokes,
                            result |-> result]
           updated == challenges \o <<newChallenge>>
       IN  /\ currentResult' = result
           /\ challenges' = updated
           /\ performance' = aggregatedPerformance(updated)
           /\ preloadNextText(
                  IF outcome = "failed" THEN profileOf(result.strugglingKeys, result)
                  ELSE profileOf(mergedStrugglingKeys(updated), result),
                  Len(updated))
    /\ analyses' = Remove(analyses, i)
    /\ sessionState' = "results"
    /\ UNCHANGED <<isVerified, currentText, preloadedTextRef, textFetches, typingVars>>
    /\ UNCHANGED <<scorerVars, normalizerVars>>

\* Mutant of AnalysisSettles: a failed analysis leaves no result.
AnalysisSettlesWithoutFallback(i, outcome) ==
    /\ i \in 1..Len(analyses)
    /\ analyses' = Remove(analyses, i)
    /\ IF outcome = "failed"
       THEN UNCHANGED <<sessionState, currentResult, isPreloadingRef, prefetches,
                        aggregatorVars>>
       ELSE LET body == analyses[i].body
                result == jsonOf(SessionResult(body, outcome = "generated"))
                newChallenge == [text |-> analyses[i].text, keystrokes |-> body.keystrokes,
                                 result |-> result]
                updated == <<newChallenge>> \o challenges
            IN  /\ currentResult' = result
                /\ challenges' = updated
                /\ performance' = aggregatedPerformance(updated)
                /\ preloadNextText(profileOf(mergedStrugglingKeys(updated), result),
                                   Len(updated))
                /\ sessionState' = "results"
    /\ UNCHANGED <<isVerified, currentText, preloadedTextRef, textFetches, typingVars>>
    /\ UNCHANGED <<scorerVars, normalizerVars>>

\* The analyze-session request settles: the rest of handleComplete, on an OK
\* answer or in the catch branch (request failed, answer not OK).
AnalysisSettles(i, outcome) ==
    /\ i \in 1..Len(analyses)
    /\ LET body == analyses[i].body
           result == IF outcome = "failed" THEN fallbackResult(body)
                     ELSE jsonOf(SessionResult(body, outcome = "generated"))
           newChallenge == [text |-> analyses[i].text, keystrokes |-> body.keystrokes,
                            result |-> result]
           updated == <<newChallenge>> \o challenges
       IN  /\ currentResult' = result
           /\ challenges' = updated
           /\ performance' = aggregatedPerformance(updated)
           /\ preloadNextText(
                  IF outcome = "failed" THEN profileOf(result.strugglingKeys, result)
                  ELSE profileOf(mergedStrugglingKeys(updated), result),
                  Len(updated))
    /\ analyses' = Remove(analyses, i)
    /\ sessionState' = "results"
    /\ UNCHANGED <<isVerified, currentText, preloadedTextRef, textFetches, typingVars>>
    /\ UNCHANGED <<scorerVars, normalizerVars>>

\* Mutant of PrefetchSettles: the prefetched text is shown when it arrives.
PrefetchSettlesShowingText(i, kind) ==
    /\ i \in 1..Len(prefetches)
    /\ preloadedTextRef' = null
    /\ currentText' = Text(kind, "prefetch", prefetches[i].sessions)
    /\ ShowReady
    /\ isPreloadingRef' = FALSE
    /\ prefetches' = Remove(prefetches, i)
    /\ UNCHANGED <<isVerified, currentResult, textFetches, analyses>>
    /\ UNCHANGED <<scorerVars, normalizerVars, aggregatorVars>>

\* Mutant of PrefetchSettles: the guard is released only when a text was served.
PrefetchSettlesGuardKeptOnFailure(i, kind) ==
    /\ i \in 1..Len(prefetches)
    /\ preloadedTextRef' = Text(kind, "prefetch", prefetches[i].sessions)
    /\ isPreloadingRef' = IF kind = "served" THEN FALSE ELSE isPreloadingRef
    /\ prefetches' = Remove(prefetches, i)
    /\ UNCHANGED <<isVerified, sessionState, currentText, currentResult, textFetches,
                   analyses, typingVars>>
    /\ UNCHANGED <<scorerVars, normalizerVars, aggregatorVars>>

\* The fetchText of preloadNextText settles: the text is kept for the next
\* challenge and the guard is released.
PrefetchSettles(i, kind) ==
    /\ i \in 1..Len(prefetches)
    /\ preloadedTextRef' = Text(kind, "prefetch", prefetches[i].sessions)
    /\ isPreloadingRef' = FALSE
    /\ prefetches' = Remove(prefetches, i)
    /\ UNCHANGED <<isVerified, sessionState, currentText, currentResult, textFetches,
                   analyses, typingVars>>
    /\ UNCHANGED <<scorerVars, normalizerVars, aggregatorVars>>


(***************************************************************************)
(* Keystroke recorder: the TypingInterface component.                      *)
(*                                                                         *)
(* Word and character indices count from 0 as in the code; typedChars is   *)
(* the array of the typed characters per word, an entry never assigned     *)
(* reading as the empty list.  Date.now() is read to ClockResolution       *)
(* seconds for the timestamps of the log; the seconds between the start    *)
(* and the completion are the ticks counted, or one more.                  *)
(***************************************************************************)
PrintableKeys == {"a", "x"}
Keys == PrintableKeys \cup {" ", "Backspace", "Shift"}

DateNow == 1000 * ClockResolution * (1 + (SessionSeconds - timeLeft) \div ClockResolution)

\* typedChars[wordIndex] || []
typedAt(typed, wordIndex) ==
    IF wordIndex + 1 <= Len(typed) THEN typed[wordIndex + 1] ELSE <<>>

\* next[wordIndex] = chars
setTyped(typed, wordIndex, chars) ==
    [w \in 1..(IF wordIndex + 1 > Len(typed) THEN wordIndex + 1 ELSE Len(typed)) |->
        IF w = wordIndex + 1 THEN chars
        ELSE IF w <= Len(typed) THEN typed[w] ELSE <<>>]

\* words[currentWordIndex], the empty word standing for undefined
wordAt(words, wordIndex) ==
    IF wordIndex + 1 <= Len(words) THEN words[wordIndex + 1] ELSE <<>>

\* Mutant of charAt: past the end of the word, its last character.
charAtClamped(word, charIndex) ==
    IF charIndex + 1 <= Len(word) THEN word[charIndex + 1]
    ELSE IF Len(word) > 0 THEN word[Len(word)] ELSE ""

\* currentWord[currentCharIndex] || ""
charAt(word, charIndex) ==
    IF charIndex + 1 <= Len(word) THEN word[charIndex + 1] ELSE ""

\* Mutant of mayAdvance: a space advances whatever was typed.
mayAdvanceAlways(currentTyped) == TRUE

\* currentTyped.length > 0: a space moves past a word with a typed character.
mayAdvance(currentTyped) == Len(currentTyped) > 0

\* Mutant of isStartSignal: any key starts the session.
isStartSignalAnyKey(key) == key = key

\* The key that starts the countdown.
isStartSignal(key) == key = " "

\* Mutant of CompleteWhenExhausted: the log is handed over without the last keystroke.
CompleteWhenExhaustedStaleLog(log, wordIndex) ==
    IF wordIndex >= Len(wordsOf(currentText))
    THEN \E elapsed \in ElapsedSeconds : handleComplete(keystrokesRef, elapsed, wordIndex)
    ELSE UNCHANGED <<homeVars, scorerVars, normalizerVars, aggregatorVars>>

\* The completion effect: once the current word index has reached the number
\* of words the session is handed to onComplete, else nothing else changes.
CompleteWhenExhausted(log, wordIndex) ==
    IF wordIndex >= Len(wordsOf(currentText))
    THEN \E elapsed \in ElapsedSeconds : handleComplete(log, elapsed, wordIndex)
    ELSE UNCHANGED <<homeVars, scorerVars, normalizerVars, aggregatorVars>>

handleKeyDown(key) ==
    /\ RecorderRendered
    /\ IF timeLeft = 0 THEN UNCHANGED vars
       ELSE IF ~hasStarted
       THEN IF isStartSignal(key)
            THEN /\ hasStarted' = TRUE
                 /\ startTime' = DateNow
                 /\ UNCHANGED <<timeLeft, currentWordIndex, currentCharIndex, typedChars,
                                keystrokesRef>>
                 /\ UNCHANGED <<homeVars, scorerVars, normalizerVars, aggregatorVars>>
            ELSE UNCHANGED vars
       ELSE LET currentWord == wordAt(wordsOf(currentText), currentWordIndex)
                typed == setTyped(typedChars, currentWordIndex,
                                  typedAt(typedChars, currentWordIndex))
            IN
            IF currentWord = <<>> /\ key # "Backspace" THEN UNCHANGED vars
            ELSE IF key = "Backspace"
            THEN /\ keystrokesRef' = Append(keystrokesRef,
                        KeystrokeOf("", "", DateNow, "Backspace", TRUE,
                                    currentWordIndex, currentCharIndex))
                 /\ IF currentCharIndex > 0
                    THEN /\ currentCharIndex' = currentCharIndex - 1
                         /\ typedChars' = setTyped(typed, currentWordIndex,
                                SubSeq(typed[currentWordIndex + 1], 1,
                                       Len(typed[currentWordIndex + 1]) - 1))
                         /\ UNCHANGED currentWordIndex
                    ELSE IF currentWordIndex > 0
                    THEN /\ currentWordIndex' = currentWordIndex - 1
                         /\ currentCharIndex' = Len(typedAt(typedChars, currentWordIndex - 1))
                         /\ typedChars' = typed
                    ELSE /\ typedChars' = typed
                         /\ UNCHANGED <<currentWordIndex, currentCharIndex>>
                 /\ UNCHANGED <<hasStarted, timeLeft, startTime>>
                 /\ UNCHANGED <<homeVars, scorerVars, normalizerVars, aggregatorVars>>
            ELSE IF key = " "
            THEN IF mayAdvance(typedAt(typedChars, currentWordIndex))
                 THEN /\ keystrokesRef' = Append(keystrokesRef,
                             KeystrokeOf(" ", " ", DateNow, " ", TRUE,
                                         currentWordIndex, currentCharIndex))
                      /\ currentWordIndex' = currentWordIndex + 1
                      /\ currentCharIndex' = 0
                      /\ typedChars' = typed
                      /\ UNCHANGED <<hasStarted, timeLeft, startTime>>
                      /\ CompleteWhenExhausted(keystrokesRef', currentWordIndex')
                 ELSE /\ typedChars' = typed
                      /\ UNCHANGED <<hasStarted, timeLeft, startTime, currentWordIndex,
                                     currentCharIndex, keystrokesRef>>
                      /\ UNCHANGED <<homeVars, scorerVars, normalizerVars, aggregatorVars>>
            ELSE IF key \in PrintableKeys
            THEN LET expectedChar == charAt(currentWord, currentCharIndex)
                     isCorrect == key = expectedChar
                 IN  /\ keystrokesRef' = Append(keystrokesRef,
                            KeystrokeOf(key, expectedChar, DateNow, key, isCorrect,
                                        currentWordIndex, currentCharIndex))
                     /\ typedChars' = setTyped(typed, currentWordIndex,
                            Append(typed[currentWordIndex + 1],
                                   [char |-> key, isCorrect |-> isCorrect]))
                     /\ currentCharIndex' = currentCharIndex + 1
                     /\ UNCHANGED <<hasStarted, timeLeft, startTime, currentWordIndex>>
                     /\ UNCHANGED <<homeVars, scorerVars, normalizerVars, aggregatorVars>>
            ELSE /\ typedChars' = typed
                 /\ UNCHANGED <<hasStarted, timeLeft, startTime, currentWordIndex,
                                currentCharIndex, keystrokesRef>>
                 /\ UNCHANGED <<homeVars, scorerVars, normalizerVars, aggregatorVars>>

\* Mutant of Tick: the interval keeps firing after the TypingInterface is gone.
TickNeverCleared ==
    /\ hasStarted
    /\ timeLeft > 0
    /\ IF timeLeft <= 1
       THEN /\ timeLeft' = 0
            /\ handleComplete(keystrokesRef, SessionSeconds, currentWordIndex)
       ELSE /\ timeLeft' = timeLeft - 1
            /\ UNCHANGED <<homeVars, scorerVars, normalizerVars, aggregatorVars>>
    /\ UNCHANGED <<hasStarted, startTime, currentWordIndex, currentCharIndex, typedChars,
                   keystrokesRef>>

\* One firing of the interval: the countdown goes down by one second, and
\* the firing that finds it at 1 (or below) ends the session.
Tick ==
    /\ RecorderRendered
    /\ hasStarted
    /\ timeLeft > 0
    /\ IF timeLeft <= 1
       THEN /\ timeLeft' = 0
            /\ handleComplete(keystrokesRef, SessionSeconds, currentWordIndex)
       ELSE /\ timeLeft' = timeLeft - 1
            /\ UNCHANGED <<homeVars, scorerVars, normalizerVars, aggregatorVars>>
    /\ UNCHANGED <<hasStarted, startTime, currentWordIndex, currentCharIndex, typedChars,
                   keystrokesRef>>

(***************************************************************************)
(* Inputs of the scorer: three bounded families of request bodies.         *)
(*   - GeneralBodies: every log of at most MaxKeystrokes keystrokes over   *)
(*     a small keystroke set, with every elapsed time of TimesElapsed;     *)
(*   - ErrorBodies: logs of at most MaxErrors mistyped keystrokes over     *)
(*     six expected letters (one more than the scorer reports);            *)
(*   - RunBodies: runs of at most MaxRun correct keystrokes typed in the   *)
(*     full 60 second session.                                             *)
(***************************************************************************)
TimesElapsed == {0, 8, 60}

\* A mistyped letter with any expected character, a correct letter, a
\* Backspace, correct or not, and the space that advances to the next word.
\* (The scorer reads expected of mistyped non-Backspace keystrokes only.)
Keystroke ==
    [key : {"a"}, expected : {"a", "A", "b"}, isCorrect : {FALSE}, timestamp : {0, 1}]
    \cup [key : {"a"}, expected : {"a"}, isCorrect : {TRUE}, timestamp : {0, 1}]
    \cup [key : {"Backspace"}, expected : {"a"}, isCorrect : BOOLEAN, timestamp : {0, 1}]
    \cup [key : {" "}, expected : {" "}, isCorrect : {TRUE}, timestamp : {0, 1}]

ErrorLetters == {"a", "b", "c", "d", "e", "f"}

SeqsUpTo(S, n) == UNION {[1..m -> S] : m \in 0..n}

Body(keystrokes, timeElapsed) ==
    [malformed |-> FALSE, keystrokes |-> keystrokes, timeElapsed |-> timeElapsed,
     completedWords |-> 0, totalWords |-> 90]

MalformedBody ==
    [malformed |-> TRUE, keystrokes |-> <<>>, timeElapsed |-> 0,
     completedWords |-> 0, totalWords |-> 0]

GeneralBodies ==
    {Body(ks, t) : ks \in SeqsUpTo(Keystroke, MaxKeystrokes), t \in TimesElapsed}

\* The i-th keystroke of an error log is typed i * i milliseconds in.
ErrorLog(letters) ==
    [i \in 1..Len(letters) |->
        [key |-> "x", expected |-> letters[i], isCorrect |-> FALSE,
         timestamp |-> i * i]]

ErrorBodies ==
    {Body(ErrorLog(letters), 60) : letters \in SeqsUpTo(ErrorLetters, MaxErrors)}

CorrectRun(n) ==
    [i \in 1..n |->
        [key |-> "a", expected |-> "a", isCorrect |-> TRUE, timestamp |-> 200 * i]]

RunBodies == {Body(CorrectRun(n), 60) : n \in 0..MaxRun}

(***************************************************************************)
(* Inputs of the normalizer: generateText throws, or it returns            *)
(*   - one of the texts made of at most MaxPieces pieces: a letter, an     *)
(*     uppercase letter, a character that is no letter, a blank and a run  *)
(*     of eleven letters;                                                  *)
(*   - the text of fallbackText twice (140 words, every letter);           *)
(*   - the same without its words with a "b" or an "x" (120 words).        *)
(***************************************************************************)
Pieces == {<<"q">>, <<"Z">>, <<"!">>, <<" ">>,
           <<"a","b","c","d","e","f","g","h","i","j","k">>}

RECURSIVE Concat(_)
Concat(pieces) == IF pieces = <<>> THEN <<>> ELSE Head(pieces) \o Concat(Tail(pieces))

PieceTexts == {Concat(ps) : ps \in SeqsUpTo(Pieces, MaxPieces)}

TooManyWords == fallbackText \o <<" ", "\n">> \o fallbackText

NoBNoX ==
    JoinWords(SelectSeq(fallbackTextWords \o fallbackTextWords,
                        LAMBDA w : ~Includes(w, "b") /\ ~Includes(w, "x")))

GenerationThrows == [throws |-> TRUE, text |-> <<>>]

Generations ==
    {GenerationThrows}
        \cup {[throws |-> FALSE, text |-> t] : t \in PieceTexts \cup {TooManyWords, NoBNoX}}

InitNormalizer ==
    /\ generation \in Generations
    /\ textResponse = NoResponse
    /\ request = MalformedBody
    /\ response = NoResponse
    /\ challenges = <<>>
    /\ performance = null
    /\ HomeMounted
    /\ RecorderMounted

NextNormalizer == GenerateText

SpecNormalizer == InitNormalizer /\ [][NextNormalizer]_vars

InitScorer ==
    /\ request \in GeneralBodies \cup ErrorBodies \cup RunBodies \cup {MalformedBody}
    /\ response = NoResponse
    /\ generation = GenerationThrows
    /\ textResponse = NoResponse
    /\ challenges = <<>>
    /\ performance = null
    /\ HomeMounted
    /\ RecorderMounted

NextScorer == AnalyzeSessionPOST

SpecScorer == InitScorer /\ [][NextScorer]_vars

(***************************************************************************)
(* Inputs of the aggregator: at most MaxChallenges challenges, each without *)
(* a result or with the result the scorer gives for its log: a log of at    *)
(* most two keystrokes typed in 8 or 60 seconds, or one of HistogramLogs.   *)
(***************************************************************************)
ChallengeKeystroke ==
    {[key |-> "a", expected |-> "a", isCorrect |-> TRUE, timestamp |-> 0],
     [key |-> "x", expected |-> "a", isCorrect |-> FALSE, timestamp |-> 0],
     [key |-> "x", expected |-> "b", isCorrect |-> FALSE, timestamp |-> 0]}

ChallengeLogs == SeqsUpTo(ChallengeKeystroke, 2)

Challenge(keystrokes, result) ==
    [text |-> "text", keystrokes |-> keystrokes, result |-> result]

\* Longer sessions of mistyped keys: two whose histograms add up to
\* {a:3, b:5, c:5}, two that together mistype ten keys, and one with as many
\* mistyped keystrokes as the profile keeps.
HistogramLogs ==
    {ErrorLog(<<"a", "a", "b">>),
     ErrorLog(<<"c", "c", "c", "c", "c", "b", "b", "b", "b", "a">>),
     ErrorLog(<<"d", "e", "f", "g", "h">>),
     ErrorLog(<<"i", "j", "k", "l", "m">>),
     ErrorLog([i \in 1..RecentErrorsKept |-> "n"])}

NewChallenges ==
    {Challenge(ks, null) : ks \in {<<>>}}
        \cup {Challenge(ks, SessionResult(Body(ks, t), TRUE)) :
                 ks \in ChallengeLogs, t \in {8, 60}}
        \cup {Challenge(ks, SessionResult(Body(ks, 60), TRUE)) : ks \in HistogramLogs}

InitAggregator ==
    /\ challenges = <<>>
    /\ performance = null
    /\ HomeMounted
    /\ RecorderMounted
    /\ request = MalformedBody
    /\ response = NoResponse
    /\ generation = GenerationThrows
    /\ textResponse = NoResponse

NextAggregator ==
    \E newChallenge \in NewChallenges :
        Len(challenges) < MaxChallenges /\ AddChallenge(newChallenge)

SpecAggregator == InitAggregator /\ [][NextAggregator]_vars

(***************************************************************************)
(* The recorder on its own: a TypingInterface mounted with a short text,   *)
(* under every sequence of keys and ticks, up to the call of onComplete    *)
(* (handleComplete of the Home page, which unmounts it).                   *)
(***************************************************************************)
InitTyping ==
    /\ isVerified = TRUE
    /\ sessionState = "ready"
    /\ currentText \in {Text(kind, "fetch", 0) : kind \in {"one", "two"}}
    /\ currentResult = null
    /\ preloadedTextRef = null
    /\ isPreloadingRef = FALSE
    /\ textFetches = <<>>
    /\ prefetches = <<>>
    /\ analyses = <<>>
    /\ RecorderMounted
    /\ challenges = <<>>
    /\ performance = null
    /\ request = MalformedBody
    /\ response = NoResponse
    /\ generation = GenerationThrows
    /\ textResponse = NoResponse

\* Mutant of KeyPressed: a letter typed before the start signal is recorded.
KeyPressedRecordingBeforeStart ==
    \E key \in Keys :
        /\ Len(keystrokesRef) < MaxLog
        /\ IF RecorderRendered /\ ~hasStarted /\ key \in PrintableKeys
           THEN /\ keystrokesRef' = Append(keystrokesRef,
                       KeystrokeOf(key, "", DateNow, key, FALSE, 0, 0))
                /\ UNCHANGED <<hasStarted, timeLeft, startTime, currentWordIndex,
                               currentCharIndex, typedChars>>
                /\ UNCHANGED <<homeVars, scorerVars, normalizerVars, aggregatorVars>>
           ELSE handleKeyDown(key)

KeyPressed == \E key \in Keys : Len(keystrokesRef) < MaxLog /\ handleKeyDown(key)

\* The session handed over is scored and the results are shown.
SessionScored == \E outcome \in AnalysisOutcomes : AnalysisSettles(1, outcome)

NextTyping == KeyPressed \/ Tick \/ SessionScored

SpecTyping == InitTyping /\ [][NextTyping]_vars

(***************************************************************************)
(* The recorder with a text request outstanding: the page after the first  *)
(* of the two requests of a new challenge has answered with a text of      *)
(* three words.  One session was completed before, with nothing typed, and *)
(* the text prefetched for it arrived after the click on New Challenge.    *)
(* The second request answers, at any moment of the session, with a text   *)
(* of one word (what it does after the session was handed over is the      *)
(* matter of the Home page specification).                                 *)
(***************************************************************************)
PreviousChallenge ==
    LET body == [malformed |-> FALSE, keystrokes |-> <<>>, timeElapsed |-> SessionSeconds,
                 completedWords |-> 0, totalWords |-> 1]
    IN  [text |-> Text("one", "fetch", 0), keystrokes |-> <<>>,
         result |-> jsonOf(SessionResult(body, TRUE))]

InitRefetch ==
    /\ isVerified = TRUE
    /\ sessionState = "ready"
    /\ challenges = <<PreviousChallenge>>
    /\ performance = aggregatedPerformance(challenges)
    /\ currentText = Text("three", "fetch", 1)
    /\ currentResult = null
    /\ preloadedTextRef = Text("one", "prefetch", 1)
    /\ isPreloadingRef = FALSE
    /\ textFetches = <<fetchText(performance, 1)>>
    /\ prefetches = <<>>
    /\ analyses = <<>>
    /\ RecorderMounted
    /\ request = MalformedBody
    /\ response = NoResponse
    /\ generation = GenerationThrows
    /\ textResponse = NoResponse

LateTextArrives == sessionState = "ready" /\ TextFetchSettles(1, "one")

NextRefetch == KeyPressed \/ Tick \/ LateTextArrives

SpecRefetch == InitRefetch /\ [][NextRefetch]_vars

(***************************************************************************)
(* The Home page: every interleaving of the visitor's actions with the     *)
(* settling of the requests in flight, for at most MaxSessions sessions.   *)
(* What is typed in a session is the recorder's matter: here a session is  *)
(* started by the space key and ends, after 60 seconds, with one of two    *)
(* logs (nothing typed, or the first letter of the text mistyped).         *)
(***************************************************************************)
SessionLogs ==
    {<<>>, <<KeystrokeOf("x", "t", DateNow, "x", FALSE, 0, 0)>>}

StartSignal ==
    /\ sessionState = "ready"
    /\ ~hasStarted
    /\ handleKeyDown(" ")

SessionEnds(log) ==
    /\ RecorderRendered
    /\ hasStarted
    /\ Len(challenges) + Len(analyses) < MaxSessions
    /\ handleComplete(log, SessionSeconds, 0)
    /\ UNCHANGED typingVars

Init ==
    /\ HomeMounted
    /\ RecorderMounted
    /\ challenges = <<>>
    /\ performance = null
    /\ request = MalformedBody
    /\ response = NoResponse
    /\ generation = GenerationThrows
    /\ textResponse = NoResponse

Next ==
    \/ Verified
    \/ handleNewChallenge
    \/ \E i \in 1..Len(textFetches), kind \in TextKinds : TextFetchSettles(i, kind)
    \/ StartSignal
    \/ \E log \in SessionLogs : SessionEnds(log)
    \/ \E i \in 1..Len(analyses), outcome \in AnalysisOutcomes : AnalysisSettles(i, outcome)
    \/ \E i \in 1..Len(prefetches), kind \in TextKinds : PrefetchSettles(i, kind)

Spec == Init /\ [][Next]_vars

\* A pending analysis request settles: the step that takes a request off
\* the pending ones is the one of AnalysisSettles, which no other step does.
AnalysisSettled == \E i \in 1..Len(analyses) : analyses' = Remove(analyses, i)

FairSpec == Spec /\ WF_analyses(AnalysisSettled)

\* The text source settles: a prefetch in flight is eventually answered or
\* fails, and the step that takes it off the ones in flight is the one of
\* PrefetchSettles.
PrefetchSettled == \E i \in 1..Len(prefetches) : prefetches' = Remove(prefetches, i)

FairPrefetchSpec == Spec /\ WF_prefetches(PrefetchSettled)

(***************************************************************************)
(* The analysis of one session: the page has handed a recorded session to  *)
(* the route and waits; the route answers, and the page takes the answer   *)
(* or, the request failing, computes the result itself.  The logs are the  *)
(* sequences of at most MaxRecorded keystrokes of the kinds the recorder   *)
(* appends on the text "a": the letter typed, another key in its place, a  *)
(* key typed past the end of the word, a Backspace and the space.          *)
(***************************************************************************)
RecordedKeystroke ==
    {KeystrokeOf("a", "a", 0, "a", TRUE, 0, 0),
     KeystrokeOf("x", "a", 0, "x", FALSE, 0, 0),
     KeystrokeOf("x", "", 0, "x", FALSE, 0, 1),
     KeystrokeOf("", "", 0, "Backspace", TRUE, 0, 1),
     KeystrokeOf(" ", " ", 0, " ", TRUE, 0, 1)}

AnalysisBodies ==
    {[malformed |-> FALSE, keystrokes |-> ks, timeElapsed |-> t,
      completedWords |-> 0, totalWords |-> 1] :
        ks \in SeqsUpTo(RecordedKeystroke, MaxRecorded), t \in TimesElapsed}

InitAnalysis ==
    /\ request \in AnalysisBodies
    /\ response = NoResponse
    /\ isVerified = TRUE
    /\ sessionState = "analyzing"
    /\ currentText = Text("one", "fetch", 0)
    /\ currentResult = null
    /\ preloadedTextRef = null
    /\ isPreloadingRef = FALSE
    /\ textFetches = <<>>
    /\ prefetches = <<>>
    /\ analyses = <<[body |-> request, text |-> currentText]>>
    /\ RecorderMounted
    /\ challenges = <<>>
    /\ performance = null
    /\ generation = GenerationThrows
    /\ textResponse = NoResponse

\* res.ok: the page takes the answer of the route.
AnalysisAnswered ==
    /\ response.status = 200
    /\ AnalysisSettles(1, IF response.aiInsights = "generated" THEN "generated"
                          ELSE "templated")

\* The request is rejected or its answer is lost: the catch branch.
AnalysisFails == AnalysisSettles(1, "failed")

NextAnalysis == AnalyzeSessionPOST \/ AnalysisAnswered \/ AnalysisFails

SpecAnalysis == InitAnalysis /\ [][NextAnalysis]_vars

(***************************************************************************)
(* Properties of the scorer.                                               *)
(***************************************************************************)
Scored == response.status = 200

\* The keystrokes of the request that count as an error on key k: incorrect,
\* not Backspace, expected character k in either case.
CaseFolded(c) == IF c = "A" THEN "a" ELSE IF c = "B" THEN "b" ELSE c

ErrorsOn(k) ==
    {i \in 1..Len(request.keystrokes) :
        /\ ~request.keystrokes[i].isCorrect
        /\ request.keystrokes[i].key # "Backspace"
        /\ CaseFolded(request.keystrokes[i].expected) = k}

ErrorKeys ==
    {CaseFolded(request.keystrokes[i].expected) : i \in
        {j \in 1..Len(request.keystrokes) :
            /\ ~request.keystrokes[j].isCorrect
            /\ request.keystrokes[j].key # "Backspace"}}

NumCorrect == Cardinality({i \in 1..Len(request.keystrokes) : request.keystrokes[i].isCorrect})

NumTyped == Cardinality({i \in 1..Len(request.keystrokes) : request.keystrokes[i].key # "Backspace"})

\* r is x / y rounded to the nearest integer, halves up (y > 0).
IsRounded(r, x, y) == 2 * y * r <= 2 * x + y /\ 2 * x + y < 2 * y * (r + 1)

\* C1: the scorer reports totalKeystrokes = the length of the log,
\* correctKeystrokes = the number of keystrokes with isCorrect,
\* correctKeystrokes <= totalKeystrokes, 0 <= accuracy <= 100, and accuracy =
\* round(correctKeystrokes / totalKeystrokes * 100) for a non-empty log, else
\* 0; three keystrokes of which two are correct give 67.
C1_AccuracyContract ==
    Scored =>
        LET n == Len(request.keystrokes) IN
        /\ response.totalKeystrokes = n
        /\ response.correctKeystrokes = NumCorrect
        /\ response.correctKeystrokes <= response.totalKeystrokes
        /\ response.accuracy \in 0..100
        /\ n > 0 => IsRounded(response.accuracy, NumCorrect * 100, n)
        /\ n = 0 => response.accuracy = 0
        /\ (n = 3 /\ NumCorrect = 2) => response.accuracy = 67

C1_Witness ==
    /\ Scored
    /\ Len(request.keystrokes) = 3
    /\ NumCorrect = 2
    /\ response.accuracy = 67

\* C4 as stated: strugglingKeys is sorted strictly descending by errorCount,
\* ties are broken by first-seen order, and its length is at most 5.
FirstErrorOn(k) == CHOOSE i \in ErrorsOn(k) : \A j \in ErrorsOn(k) : i <= j

TiesInFirstSeenOrder(sk) ==
    \A p, q \in 1..Len(sk) :
        (p < q /\ sk[p].errorCount = sk[q].errorCount)
            => FirstErrorOn(sk[p].key) < FirstErrorOn(sk[q].key)

C4_StrictlyDescending ==
    Scored =>
        LET sk == response.strugglingKeys IN
        /\ \A p \in 1..(Len(sk) - 1) : sk[p].errorCount > sk[p + 1].errorCount
        /\ TiesInFirstSeenOrder(sk)
        /\ Len(sk) <= 5

\* C4, amended: strugglingKeys is sorted descending by errorCount (never
\* increasing; equal counts may follow each other), keys with equal
\* errorCount come in the order of their first mistyped keystroke, and the
\* list has at most 5 entries.
C4_DescendingTopFive ==
    Scored =>
        LET sk == response.strugglingKeys IN
        /\ \A p \in 1..(Len(sk) - 1) : sk[p].errorCount >= sk[p + 1].errorCount
        /\ TiesInFirstSeenOrder(sk)
        /\ Len(sk) <= 5

\* Five keys reported, the most mistyped one moved in front of keys seen
\* earlier, the others tied.
C4_Witness ==
    /\ Scored
    /\ Len(response.strugglingKeys) = 5
    /\ response.strugglingKeys[1].errorCount = 2
    /\ FirstErrorOn(response.strugglingKeys[1].key) > 1
    /\ response.strugglingKeys[2].errorCount = response.strugglingKeys[3].errorCount

SixtyCorrectInSixtySeconds ==
    /\ Scored
    /\ Len(request.keystrokes) = 60
    /\ NumCorrect = 60
    /\ NumTyped = 60
    /\ request.timeElapsed = 60

\* C5 as stated: 60 correct non-delete keystrokes typed over exactly 60
\* seconds score wpm = 60.
C5_SixtyKeystrokesScoreSixty == SixtyCorrectInSixtySeconds => response.wpm = 60

\* C5, amended: 60 correct non-delete keystrokes typed over exactly 60
\* seconds score wpm = 12 (five characters are one word; it takes 300 such
\* keystrokes to score 60).
C5_SixtyKeystrokesScoreTwelve ==
    /\ SixtyCorrectInSixtySeconds => response.wpm = 12
    /\ (/\ Scored
        /\ Len(request.keystrokes) = 300
        /\ NumCorrect = 300
        /\ NumTyped = 300
        /\ request.timeElapsed = 60) => response.wpm = 60

C5_Witness == SixtyCorrectInSixtySeconds /\ response.wpm = 12

\* C6: wpm = round((charactersTyped / 5) / (timeElapsed / 60)) when
\* timeElapsed > 0 and 0 otherwise, charactersTyped being the number of
\* keystrokes whose key is not Backspace (spaces count); wpm is a
\* non-negative integer.
C6_WpmFormula ==
    Scored =>
        /\ response.wpm \in Nat
        /\ request.timeElapsed > 0 =>
              IsRounded(response.wpm, NumTyped * 12, request.timeElapsed)
        /\ request.timeElapsed <= 0 => response.wpm = 0

\* A Backspace, a space and a letter in 8 seconds: 2 characters, 3 wpm.
C6_Witness ==
    /\ Scored
    /\ request.timeElapsed = 8
    /\ \E i, j, l \in 1..Len(request.keystrokes) :
          /\ request.keystrokes[i].key = "Backspace"
          /\ request.keystrokes[j].key = " "
          /\ request.keystrokes[l].key = "a"
    /\ response.wpm = 3

\* C7: an empty keystroke log, with any timeElapsed, is answered with the
\* zero result (wpm 0, accuracy 0, no struggling keys, totalKeystrokes 0,
\* correctKeystrokes 0), never with an error.
C7_EmptyLogZeroResult ==
    (~request.malformed /\ request.keystrokes = <<>> /\ response # NoResponse) =>
        /\ response.status = 200
        /\ response.wpm = 0
        /\ response.accuracy = 0
        /\ response.strugglingKeys = <<>>
        /\ response.totalKeystrokes = 0
        /\ response.correctKeystrokes = 0

C7_Witness ==
    /\ request.keystrokes = <<>>
    /\ ~request.malformed
    /\ request.timeElapsed = 0
    /\ Scored

\* C8: the error count of a key k is the number of keystrokes that are
\* incorrect, are not Backspace and whose lowercased expected character is
\* k; Backspace keystrokes never count and never enter the histogram.  (The
\* response lists the five most mistyped keys: every listed key carries
\* that count, and up to five keys every mistyped key is listed.)
C8_ErrorCounts ==
    Scored =>
        LET sk == response.strugglingKeys IN
        /\ \A p \in 1..Len(sk) :
              /\ sk[p].key \in ErrorKeys
              /\ sk[p].errorCount = Cardinality(ErrorsOn(sk[p].key))
        /\ \A p, q \in 1..Len(sk) : sk[p].key = sk[q].key => p = q
        /\ Len(sk) = Min(5, Cardinality(ErrorKeys))

\* An incorrect Backspace and mistyped "a" and "A" in one log: one key, "a",
\* two errors.
C8_Witness ==
    /\ Scored
    /\ \E i \in 1..Len(request.keystrokes) :
          request.keystrokes[i].key = "Backspace" /\ ~request.keystrokes[i].isCorrect
    /\ \E i, j \in ErrorsOn("a") :
          request.keystrokes[i].expected = "a" /\ request.keystrokes[j].expected = "A"
    /\ response.strugglingKeys = <<[key |-> "a", errorCount |-> 2,
                                    avgDelay |-> response.strugglingKeys[1].avgDelay]>>

\* The delays recorded for key k: one per mistyped keystroke on k that is not
\* the first keystroke of the log.
DelayedErrorsOn(k) == {i \in ErrorsOn(k) : i > 1}

RECURSIVE DelaySum(_)
DelaySum(I) ==
    IF I = {} THEN 0
    ELSE LET i == CHOOSE x \in I : TRUE
         IN  (request.keystrokes[i].timestamp - request.keystrokes[i - 1].timestamp)
                 + DelaySum(I \ {i})

\* C9: avgDelay of a reported key = round(mean of its delays), a delay being
\* the timestamp of a mistyped non-delete keystroke minus the timestamp of
\* the keystroke right before it (of any kind), recorded unless it is the
\* first keystroke; 0 when the key has no delay.
C9_AvgDelay ==
    Scored =>
        \A p \in 1..Len(response.strugglingKeys) :
            LET e == response.strugglingKeys[p]
                D == DelayedErrorsOn(e.key)
            IN  IF D = {} THEN e.avgDelay = 0
                ELSE IsRounded(e.avgDelay, DelaySum(D), Cardinality(D))

\* Key "a" mistyped three times, the delays 1 and 0 average to 0.5, reported
\* as 1; the first keystroke records no delay.
C9_Witness ==
    /\ Scored
    /\ Len(request.keystrokes) = 3
    /\ ErrorsOn("a") = {1, 2, 3}
    /\ DelaySum(DelayedErrorsOn("a")) = 1
    /\ response.strugglingKeys[1].avgDelay = 1
(***************************************************************************)
(* Properties of the normalizer.                                           *)
(***************************************************************************)
Normalized == textResponse.status = 200

LowercaseLetters ==
    {"a","b","c","d","e","f","g","h","i","j","k","l","m",
     "n","o","p","q","r","s","t","u","v","w","x","y","z"}

LettersOf(words) == UNION {{words[i][j] : j \in 1..Len(words[i])} : i \in 1..Len(words)}

\* C2: for every input text the normalizer returns exactly 90 tokens, each
\* matching ^[a-z]{1,10}$: characters outside a-z and tokens of a wrong
\* length never get through.
C2_NinetyCleanTokens ==
    Normalized =>
        /\ Len(textResponse.words) = 90
        /\ \A i \in 1..Len(textResponse.words) :
              /\ Len(textResponse.words[i]) \in 1..10
              /\ \A j \in 1..Len(textResponse.words[i]) :
                    textResponse.words[i][j] \in LowercaseLetters

\* "Z!abcdefghijk" goes in: the "!" is stripped, the twelve letters left
\* are dropped, the fallback words come out.
C2_Witness ==
    /\ Normalized
    /\ ~generation.throws
    /\ generation.text = <<"Z", "!">> \o <<"a","b","c","d","e","f","g","h","i","j","k">>
    /\ textResponse.words[1] = <<"t","h","e">>
    /\ Len(textResponse.words) = 90

\* C3: the output of the normalizer is 90 words in which every one of the 26
\* letters a-z appears, whatever slots and words the coverage step draws.
C3_EveryLetterAppears ==
    Normalized =>
        /\ Len(textResponse.words) = 90
        /\ LowercaseLetters \subseteq LettersOf(textResponse.words)
(***************************************************************************)
(* Properties of the aggregator.                                           *)
(***************************************************************************)
WithResult == {i \in 1..Len(challenges) : challenges[i].result # null}

RECURSIVE AccuracySum(_)
AccuracySum(I) ==
    IF I = {} THEN 0
    ELSE LET i == CHOOSE x \in I : TRUE
         IN  challenges[i].result.accuracy + AccuracySum(I \ {i})

RECURSIVE WpmSum(_)
WpmSum(I) ==
    IF I = {} THEN 0
    ELSE LET i == CHOOSE x \in I : TRUE
         IN  challenges[i].result.wpm + WpmSum(I \ {i})

\* C10: the aggregator returns no profile (null) when no challenge has a
\* result; over N >= 1 challenges with a result it returns accuracy =
\* round(sum(accuracy_i) / N) and wpm = round(sum(wpm_i) / N), the
\* challenges without a result being skipped.
C10_MeansOverScoredChallenges ==
    /\ WithResult = {} => performance = null
    /\ WithResult # {} =>
          /\ performance # null
          /\ IsRounded(performance.accuracy, AccuracySum(WithResult), Cardinality(WithResult))
          /\ IsRounded(performance.wpm, WpmSum(WithResult), Cardinality(WithResult))

\* Three challenges, one of them without a result; accuracies 50 and 100
\* average to 75, wpm 3 and 2 to 2.5, reported as 3.
C10_Witness ==
    /\ Len(challenges) = 3
    /\ Cardinality(WithResult) = 2
    /\ AccuracySum(WithResult) = 150
    /\ WpmSum(WithResult) = 5
    /\ performance # null
    /\ performance.accuracy = 75
    /\ performance.wpm = 3
\* The keys listed by some scored challenge, and the sum of the counts a key
\* is listed with.
ListedCount(i, k) ==
    LET sk == challenges[i].result.strugglingKeys
        P == {p \in 1..Len(sk) : sk[p].key = k}
    IN  IF P = {} THEN 0 ELSE sk[CHOOSE p \in P : TRUE].errorCount

RECURSIVE ListedSum(_, _)
ListedSum(I, k) ==
    IF I = {} THEN 0
    ELSE LET i == CHOOSE x \in I : TRUE
         IN  ListedCount(i, k) + ListedSum(I \ {i}, k)

ListedKeys ==
    UNION {{challenges[i].result.strugglingKeys[p].key :
               p \in 1..Len(challenges[i].result.strugglingKeys)} : i \in WithResult}

\* C11: the aggregated struggling-key list holds, for each key, the sum of
\* the errorCount the key is listed with in the strugglingKeys of the scored
\* challenges; it is sorted descending by that sum and capped to 8 entries
\* (the 8 most mistyped keys); the histogram {a:3, b:5, c:5} lists b and c,
\* both at 5, before a.
C11_SummedSortedTopEight ==
    performance # null =>
        LET sk == performance.strugglingKeys IN
        /\ \A p \in 1..Len(sk) :
              /\ sk[p].key \in ListedKeys
              /\ sk[p].errorCount = ListedSum(WithResult, sk[p].key)
        /\ \A p, q \in 1..Len(sk) : sk[p].key = sk[q].key => p = q
        /\ \A p \in 1..(Len(sk) - 1) : sk[p].errorCount >= sk[p + 1].errorCount
        /\ Len(sk) = Min(8, Cardinality(ListedKeys))
        /\ \A k \in ListedKeys :
              (\A p \in 1..Len(sk) : sk[p].key # k)
                  => ListedSum(WithResult, k) <= sk[Len(sk)].errorCount
        /\ (/\ ListedKeys = {"a", "b", "c"}
            /\ ListedSum(WithResult, "a") = 3
            /\ ListedSum(WithResult, "b") = 5
            /\ ListedSum(WithResult, "c") = 5)
              => /\ {sk[1].key, sk[2].key} = {"b", "c"}
                 /\ sk[1].errorCount = 5 /\ sk[2].errorCount = 5
                 /\ sk[3] = [key |-> "a", errorCount |-> 3]

\* The histogram {a:3, b:5, c:5}, summed over two challenges that both list
\* a and b.
C11_Witness ==
    /\ performance # null
    /\ Cardinality(WithResult) = 2
    /\ \A i \in WithResult : ListedCount(i, "a") > 0 /\ ListedCount(i, "b") > 0
    /\ performance.strugglingKeys =
          <<[key |-> "b", errorCount |-> 5], [key |-> "c", errorCount |-> 5],
            [key |-> "a", errorCount |-> 3]>>

\* More than eight keys listed by the challenges, eight reported.
C11_Capped ==
    /\ performance # null
    /\ Cardinality(ListedKeys) > 8
    /\ Len(performance.strugglingKeys) = 8
\* The expected characters of the incorrect non-delete keystrokes of
\* challenge i, in typing order.
MistypedIn(i) ==
    LET mistyped == SelectSeq(challenges[i].keystrokes,
                        LAMBDA ks : ~ks.isCorrect /\ ks.key # "Backspace")
    IN  [j \in 1..Len(mistyped) |-> mistyped[j].expected]

\* The mistyped characters of the scored challenges from the oldest session
\* (the last of the list) to the latest (the first).
RECURSIVE MistypedSince(_)
MistypedSince(i) ==
    IF i = 0 THEN <<>>
    ELSE (IF i \in WithResult THEN MistypedIn(i) ELSE <<>>) \o MistypedSince(i - 1)

Occurrences(s, c) == Cardinality({j \in 1..Len(s) : s[j] = c})

\* C12: recentErrors holds the expected characters of the at most 50 most
\* recent incorrect non-delete keystrokes of the scored challenges: beyond
\* 50 the oldest are dropped first, the errors of the latest session stay.
C12_MostRecentFiftyErrors ==
    performance # null =>
        LET recent == LastN(MistypedSince(Len(challenges)), 50) IN
        /\ Len(performance.recentErrors) <= 50
        /\ \A c \in {recent[j] : j \in 1..Len(recent)}
                   \cup {performance.recentErrors[j] : j \in 1..Len(performance.recentErrors)} :
              Occurrences(performance.recentErrors, c) = Occurrences(recent, c)
(***************************************************************************)
(* Properties of the session state machine and of the recorder.            *)
(***************************************************************************)
\* The session state of the specification: Typing is a ready page whose
\* TypingInterface has been started.
Phase ==
    CASE sessionState = "loading" -> "Idle"
      [] sessionState = "ready" /\ ~hasStarted -> "Ready"
      [] sessionState = "ready" /\ hasStarted -> "Typing"
      [] sessionState = "typing" -> "Typing"
      [] sessionState = "analyzing" -> "Scoring"
      [] sessionState = "results" -> "Reviewing"

SessionOrder ==
    {<<"Idle", "Ready">>, <<"Ready", "Typing">>, <<"Typing", "Scoring">>,
     <<"Scoring", "Reviewing">>, <<"Reviewing", "Idle">>, <<"Reviewing", "Ready">>}

\* C13: the session state changes only along Idle -> Ready -> Typing ->
\* Scoring -> Reviewing -> Idle or Ready; no step, the settling of a text
\* fetch or of an analysis included, changes it in another way.
C13_SessionOrder == [][Phase' # Phase => <<Phase, Phase'>> \in SessionOrder]_vars

\* C14: a Ready session becomes Typing exactly when a space is pressed: the
\* step that changes anything before the start is the space key, it sets
\* hasStarted and the start time, records no keystroke and is the step of no
\* other key (every other key changes nothing).
C14_SpaceStartsSession ==
    [][(RecorderRendered /\ ~hasStarted) =>
          /\ handleKeyDown(" ")
          /\ \A key \in Keys \ {" "} : ~handleKeyDown(key)
          /\ hasStarted'
          /\ startTime' # NoStartTime
          /\ keystrokesRef' = <<>>
          /\ UNCHANGED <<sessionState, timeLeft, currentWordIndex, currentCharIndex,
                         typedChars, analyses>>]_vars

\* Started by the space, nothing recorded, the countdown running.
C14_Witness ==
    /\ sessionState = "ready"
    /\ hasStarted
    /\ startTime # NoStartTime
    /\ timeLeft = SessionSeconds - 1
    /\ keystrokesRef = <<>>

\* C15: a started session goes to Scoring when the countdown, which goes
\* down from 60 one second per tick, reaches 0, or when the current word
\* index reaches the number of words, and only then; onComplete is handed
\* the whole log, an elapsed time (60 on the countdown) and the current word
\* index as the completed word count.
C15_CompletionHandsFullLog ==
    [][/\ timeLeft' # timeLeft => (hasStarted /\ timeLeft' = timeLeft - 1)
       /\ (sessionState = "ready" /\ (timeLeft' = 0 \/ currentWordIndex' >= Len(wordsOf(currentText))))
             => sessionState' = "analyzing"
       /\ (sessionState = "ready" /\ sessionState' = "analyzing") =>
             LET handed == analyses'[Len(analyses')].body IN
             /\ hasStarted
             /\ Len(analyses') = Len(analyses) + 1
             /\ handed.keystrokes = keystrokesRef'
             /\ Len(handed.keystrokes) >= Len(keystrokesRef)
             /\ handed.completedWords = currentWordIndex'
             /\ \/ /\ timeLeft' = 0
                   /\ timeLeft = 1
                   /\ handed.timeElapsed = 60
                \/ /\ timeLeft' = timeLeft
                   /\ currentWordIndex' = Len(wordsOf(currentText))
                   /\ currentWordIndex' = currentWordIndex + 1
                   /\ handed.timeElapsed \in 0..61]_vars

\* The two words of the text typed through before the countdown ended: the
\* four keystrokes are handed over with two completed words.
C15_Witness ==
    /\ sessionState = "analyzing"
    /\ timeLeft > 0
    /\ currentWordIndex = 2
    /\ Len(keystrokesRef) = 4
    /\ analyses[1].body.keystrokes = keystrokesRef
    /\ analyses[1].body.completedWords = 2

\* The countdown ended a session with a keystroke recorded.
C15_TimedOut ==
    /\ sessionState = "analyzing"
    /\ timeLeft = 0
    /\ Len(analyses[1].body.keystrokes) > 0
    /\ analyses[1].body.timeElapsed = 60

\* C16: a session that enters Scoring reaches Reviewing, with a result,
\* whether the analysis request is answered or fails; the results are never
\* shown without a result.
C16_ScoringReachesReviewing ==
    /\ [](sessionState = "results" => currentResult # null)
    /\ (sessionState = "analyzing") ~> (sessionState = "results" /\ currentResult # null)

\* Reviewing the locally computed result of a failed analysis.
C16_Witness ==
    /\ sessionState = "results"
    /\ currentResult # null
    /\ currentResult.aiInsights = "Keep practicing to improve your typing speed!"
    /\ currentResult.totalKeystrokes = 1

\* C17: the prefetch does not hold up the results: the step that starts a
\* prefetch is the one that shows the results, whatever becomes of the
\* prefetch, and the step in which a prefetch settles leaves the session
\* state as it is.
C17_PrefetchNeverBlocks ==
    [][/\ Len(prefetches') > Len(prefetches) => sessionState' = "results"
       /\ Len(prefetches') < Len(prefetches) => sessionState' = sessionState]_vars

\* The results are shown while the prefetch started for them is in flight.
C17_Witness ==
    /\ sessionState = "results"
    /\ currentResult # null
    /\ Len(prefetches) = 1
    /\ prefetches[1].sessions = Len(challenges)

\* C18: at most one prefetch is in flight, the guard being set exactly while
\* it is; a request made meanwhile starts none.
C18_OnePrefetchInFlight ==
    /\ Len(prefetches) <= 1
    /\ isPreloadingRef <=> Len(prefetches) = 1

\* Two sessions scored while the prefetch of the first is still in flight:
\* the request of the second started nothing.
C18_Witness ==
    /\ Len(challenges) = 2
    /\ Len(prefetches) = 1
    /\ prefetches[1].sessions = 1

\* C19: a prefetched text that a synchronous fetch superseded (a challenge
\* scored since was presented from a fetch made when at least as many
\* sessions were scored) is never the text presented.
SupersededByFetch(text) ==
    /\ text.source = "prefetch"
    /\ \E c \in 1..Len(challenges) :
          /\ challenges[c].text.source = "fetch"
          /\ challenges[c].text.sessions >= text.sessions

C19_StalePrefetchDiscarded == RecorderRendered => ~SupersededByFetch(currentText)

\* C20: when the text could not be acquired the fallback text presented is
\* a normalized text: 90 tokens of 1 to 10 letters a-z holding every letter.
C20_FallbackIsNormalized ==
    (sessionState = "ready" /\ currentText.kind = "fallback") =>
        LET words == wordsOf(currentText) IN
        /\ Len(words) = 90
        /\ \A w \in 1..Len(words) :
              /\ Len(words[w]) \in 1..10
              /\ \A c \in 1..Len(words[w]) : words[w][c] \in LowercaseLetters
        /\ LowercaseLetters \subseteq LettersOf(words)
(***************************************************************************)
(* Properties of the analysis of a session.                                *)
(***************************************************************************)
LocallyComputed ==
    /\ currentResult # null
    /\ currentResult.aiInsights = "Keep practicing to improve your typing speed!"

NumericFields ==
    {"wpm", "accuracy", "totalKeystrokes", "correctKeystrokes", "timeElapsed",
     "completedWords", "totalWords"}

\* C21: a result whose insight text is not the generated one carries the
\* template chosen by the accuracy (at least 95: the high-accuracy wording,
\* else the needs-practice wording), and its numeric fields are those of
\* the result with a generated insight.
C21_TemplatedInsight ==
    (currentResult # null /\ currentResult.aiInsights # "generated") =>
        /\ currentResult.aiInsights =
              IF currentResult.accuracy >= 95
              THEN "Excellent accuracy! Try increasing your speed gradually."
              ELSE "Focus on accuracy first, speed will follow with practice."
        /\ \A f \in NumericFields : currentResult[f] = SessionResult(request, TRUE)[f]

\* The same of the answers of the route alone.
C21_RouteTemplatedInsight ==
    (response.status = 200 /\ response.aiInsights # "generated") =>
        /\ response.aiInsights =
              IF response.accuracy >= 95
              THEN "Excellent accuracy! Try increasing your speed gradually."
              ELSE "Focus on accuracy first, speed will follow with practice."
        /\ \A f \in NumericFields : response[f] = SessionResult(request, TRUE)[f]

KeyCounts(keys) ==
    [p \in 1..Len(keys) |-> [key |-> keys[p].key, errorCount |-> keys[p].errorCount]]

\* C27: the locally computed result has the numeric fields of the scorer's
\* result for the same session and the same struggling keys with the same
\* error counts in the same order.
C27_FallbackEqualsScorer ==
    LocallyComputed =>
        /\ \A f \in NumericFields : currentResult[f] = SessionResult(request, TRUE)[f]
        /\ KeyCounts(currentResult.strugglingKeys)
              = KeyCounts(SessionResult(request, TRUE).strugglingKeys)
(***************************************************************************)
(* Properties of the recorder.                                             *)
(***************************************************************************)
\* The character of the text at a keystroke's position, "" past the end of
\* the word.
TextCharAt(k) ==
    LET words == wordsOf(currentText)
        word == IF k.wordIndex + 1 <= Len(words) THEN words[k.wordIndex + 1] ELSE <<>>
    IN  IF k.charIndex + 1 <= Len(word) THEN word[k.charIndex + 1] ELSE ""

\* C22: every recorded keystroke is correct iff its character is the
\* expected one; a printable key expects the character of the text at the
\* cursor, nothing past the end of the word (and is then incorrect); a
\* Backspace is recorded as correct.
C22_CorrectIffExpected ==
    \A p \in 1..Len(keystrokesRef) :
        LET k == keystrokesRef[p] IN
        /\ k.isCorrect <=> (k.char = k.expected)
        /\ k.key = "Backspace" => k.isCorrect
        /\ k.key \in PrintableKeys =>
              /\ k.char = k.key
              /\ k.expected = TextCharAt(k)
              /\ TextCharAt(k) = "" => ~k.isCorrect

\* A letter typed right, a key typed past the end of the word and a
\* Backspace are in the log.
C22_Witness ==
    /\ \E p \in 1..Len(keystrokesRef) :
          keystrokesRef[p].key = "a" /\ keystrokesRef[p].isCorrect
    /\ \E p \in 1..Len(keystrokesRef) :
          /\ keystrokesRef[p].key = "a"
          /\ keystrokesRef[p].expected = ""
          /\ ~keystrokesRef[p].isCorrect
    /\ \E p \in 1..Len(keystrokesRef) : keystrokesRef[p].key = "Backspace"
(***************************************************************************)
(* Properties of the prefetch and of the challenge list.                   *)
(***************************************************************************)
\* The profile a text request carries: none when no struggling key is listed.
SentProfile(profile) ==
    IF profile = null THEN null
    ELSE IF Len(profile.strugglingKeys) = 0 THEN null
    ELSE profile

\* C23: the profile a prefetch is started with is the profile the
\* aggregator computes over the updated challenge list (the same struggling
\* keys, accuracy, wpm and recent errors), or both carry no struggling key.
C23_PrefetchUsesAggregatedProfile ==
    [][Len(prefetches') > Len(prefetches) =>
          SentProfile(prefetches'[Len(prefetches')].performanceData)
              = SentProfile(aggregatedPerformance(challenges'))]_vars
\* C24: a started session is handed to scoring at most once, by the
\* countdown or by the exhaustion of the words and never by both, and once
\* it is over exactly one result and one challenge come of it.
C24_ScoredOnce ==
    /\ Len(analyses) + Len(challenges) <= 1
    /\ (hasStarted /\ (timeLeft = 0 \/ currentWordIndex >= Len(wordsOf(currentText))))
          => Len(analyses) + Len(challenges) = 1
    /\ sessionState = "analyzing" <=> Len(analyses) = 1
    /\ sessionState = "results" <=>
          (Len(challenges) = 1 /\ currentResult # null /\ challenges[1].result = currentResult)

\* The words were exhausted with seconds left on the countdown, and the
\* one challenge of the session is listed.
C24_Witness ==
    /\ sessionState = "results"
    /\ timeLeft > 0
    /\ timeLeft < SessionSeconds
    /\ currentWordIndex = Len(wordsOf(currentText))
    /\ Len(challenges) = 1
    /\ analyses = <<>>
\* C25: a new challenge requested with a prefetched text in the cache is
\* Ready at once with that text, without loading and without a fetch, and
\* the cache is emptied; requested with an empty cache it is loading with a
\* fetch in flight, and loading becomes Ready only with the text of a
\* settled fetch.  No prefetched text is the text of two challenges.
C25_CachedTextUsedOnce ==
    /\ [][/\ handleNewChallenge =>
              IF preloadedTextRef # null
              THEN /\ sessionState' = "ready"
                   /\ currentText' = preloadedTextRef
                   /\ preloadedTextRef' = null
                   /\ UNCHANGED <<textFetches, prefetches>>
              ELSE /\ sessionState' = "loading"
                   /\ Len(textFetches') > Len(textFetches)
                   /\ UNCHANGED <<currentText, preloadedTextRef>>
          /\ (sessionState = "loading" /\ sessionState' = "ready") =>
                /\ Len(textFetches') = Len(textFetches) - 1
                /\ currentText'.source = "fetch"]_vars
    /\ [](\A c1, c2 \in 1..Len(challenges) :
              (c1 # c2 /\ challenges[c1].text.source = "prefetch")
                  => challenges[c1].text # challenges[c2].text)
    /\ [](preloadedTextRef # null =>
              /\ currentText # preloadedTextRef
              /\ \A c \in 1..Len(challenges) : challenges[c].text # preloadedTextRef)

\* A challenge is Ready with the prefetched text and the cache is empty.
C25_Witness ==
    /\ sessionState = "ready"
    /\ currentText.source = "prefetch"
    /\ preloadedTextRef = null
    /\ textFetches = <<>>
    /\ Len(challenges) = 1
\* C26: while a challenge is Ready or being typed its text does not change,
\* the typing state is not reset, and at most one text request started for
\* a new challenge is outstanding.
C26_TextStableWhilePresented ==
    /\ [](Len(textFetches) <= 1)
    /\ [][(sessionState = "ready" /\ sessionState' = "ready") =>
              currentText' = currentText]_vars

\* The part of C26 the typist sees: the text under a started session stays.
C26_TextStableWhileTyping ==
    [][(sessionState = "ready" /\ hasStarted /\ sessionState' = "ready") =>
          currentText' = currentText]_vars
\* C28: the elapsed time handed to the scorer is 60 when the countdown
\* ended the session, and is positive whenever the log handed over holds a
\* keystroke.
C28_ElapsedPositiveWhenTyped ==
    \A i \in 1..Len(analyses) :
        LET handed == analyses[i].body IN
        /\ timeLeft = 0 => handed.timeElapsed = 60
        /\ Len(handed.keystrokes) > 0 => handed.timeElapsed > 0
\* C29: the log changes only in a started session with the countdown above
\* 0, and only by one keystroke appended: what was recorded stays as it is.
C29_LogAppendOnlyWhileActive ==
    [][keystrokesRef' # keystrokesRef =>
          /\ RecorderRendered
          /\ hasStarted
          /\ timeLeft > 0
          /\ Len(keystrokesRef') = Len(keystrokesRef) + 1
          /\ SubSeq(keystrokesRef', 1, Len(keystrokesRef)) = keystrokesRef]_vars

\* A letter, the Backspace that takes it back and a further keystroke are
\* all in the log.
C29_Witness ==
    /\ Len(keystrokesRef) = 3
    /\ keystrokesRef[1].key \in PrintableKeys
    /\ keystrokesRef[2].key = "Backspace"
    /\ currentCharIndex = 1
\* C30: the challenge list changes only when a session is scored, by the
\* challenge of that session (its text, its log, its result, which is the
\* result shown) put in front of the list, the challenges listed before
\* staying as they are; every listed challenge has a result.
C30_ChallengesPrependedOnly ==
    /\ [](\A c \in 1..Len(challenges) : challenges[c].result # null)
    /\ [][/\ (Len(analyses') < Len(analyses)) <=> (challenges' # challenges)
          /\ challenges' # challenges =>
                /\ Len(challenges') = Len(challenges) + 1
                /\ Tail(challenges') = challenges
                /\ Head(challenges').result = currentResult'
                /\ \E i \in 1..Len(analyses) :
                      /\ analyses' = Remove(analyses, i)
                      /\ Head(challenges').text = analyses[i].text
                      /\ Head(challenges').keystrokes = analyses[i].body.keystrokes]_vars

\* Two sessions scored: the empty session of the first challenge is listed
\* behind the later one with its mistyped key.
C30_Witness ==
    /\ Len(challenges) = 2
    /\ challenges[1].keystrokes # <<>>
    /\ challenges[2].keystrokes = <<>>
    /\ challenges[1].text # challenges[2].text
\* C31: the step in which a prefetch settles, with a served text or with
\* the fallback text, releases the in-flight guard, so that, the text
\* source settling, a guard that is set is released again.
C31_GuardReleased ==
    /\ [][Len(prefetches') < Len(prefetches) => (isPreloadingRef /\ ~isPreloadingRef')]_vars
    /\ isPreloadingRef ~> ~isPreloadingRef

\* The prefetch of the first session having failed, the prefetch of the
\* second session is in flight.
C31_Witness ==
    /\ isPreloadingRef
    /\ Len(prefetches) = 1
    /\ prefetches[1].sessions = 2
    /\ \/ preloadedTextRef = Text("fallback", "prefetch", 1)
       \/ currentText = Text("fallback", "prefetch", 1)
       \/ \E c \in 1..Len(challenges) : challenges[c].text = Text("fallback", "prefetch", 1)
(***************************************************************************)
(* The normalizer on covered texts, before and during the coverage step.   *)
(***************************************************************************)
\* The text the route normalizes for a generation.
NormalizedInput(g) == IF g.throws THEN fallbackText ELSE g.text

\* The list cleanAndPadWords hands to ensureAllLetters, for every generation
\* and for the one of this state.
BeforeCoverageOf == [g \in Generations |-> padWords(cleanWords(NormalizedInput(g)))]

BeforeCoverage == BeforeCoverageOf[generation]

\* The generations whose cleaned, padded tokens contain every letter a-z.
CoveredGenerations ==
    {g \in Generations : LowercaseLetters \subseteq LettersOf(BeforeCoverageOf[g])}

\* C32: when the cleaned, padded tokens of the input already contain every
\* letter a-z, the coverage step overwrites nothing: the output is the
\* cleaned, padded list, it has 90 tokens of letters a-z, and normalizing
\* the joined output again gives the same 90 tokens and nothing else.
C32_CoveredTextUnaltered ==
    (Normalized /\ generation \in CoveredGenerations) =>
        LET words == textResponse.words
        IN  /\ words = BeforeCoverage
            /\ Len(words) = 90
            /\ LettersOf(words) \subseteq LowercaseLetters
            /\ cleanAndPadWords(JoinWords(words)) = {words}

\* The text of 140 words with every letter has been normalized to its first
\* 90 words.
C32_Witness ==
    /\ Normalized
    /\ generation.text = TooManyWords
    /\ generation \in CoveredGenerations
    /\ textResponse.words = Slice(fallbackTextWords \o fallbackTextWords, 90)

\* The tokens of a text, read off its characters: a token starts at a
\* character that is no whitespace and follows none, and ends at the last
\* such character before the next whitespace.
TokenStarts(text) ==
    {i \in 1..Len(text) : ~IsWhitespace(text[i]) /\ (i = 1 \/ IsWhitespace(text[i - 1]))}

TokenEnds(text) ==
    {i \in 1..Len(text) : ~IsWhitespace(text[i]) /\ (i = Len(text) \/ IsWhitespace(text[i + 1]))}

Tokens(text) ==
    LET nth(S, k) == CHOOSE i \in S : Cardinality({o \in S : o <= i}) = k
    IN  [k \in 1..Cardinality(TokenStarts(text)) |->
            SubSeq(text, nth(TokenStarts(text), k), nth(TokenEnds(text), k))]

\* The list before the coverage step as the words above describe it, for a
\* text, for every generation and for the one of this state.
CleanedAndPadded(text) ==
    LET kept == SelectSeq([i \in 1..Len(text) |-> toLowerCase(text[i])],
                          LAMBDA c : c \in LowercaseLetters \/ IsWhitespace(c))
        tokens == SelectSeq(Tokens(kept), LAMBDA t : Len(t) <= 10)
        n == IF Len(tokens) < 90 THEN Len(tokens) ELSE 90
    IN  [p \in 0..89 |-> IF p < n THEN tokens[p + 1]
                          ELSE fallbackWords[(p % Len(fallbackWords)) + 1]]

\* Position p of the list (from 0) is element p + 1 of the sequence.
CleanedAndPaddedOf ==
    [g \in Generations |->
        LET expected == CleanedAndPadded(NormalizedInput(g))
        IN  [i \in 1..90 |-> expected[i - 1]]]

ExpectedBeforeCoverage == CleanedAndPaddedOf[generation]

\* C33: the list before the coverage step is the lowercased input without
\* the characters outside a-z and whitespace, split on whitespace runs,
\* without the empty tokens and those longer than 10, cut to the first 90 in
\* input order, and padded at the positions n..89 with the fallback word at
\* index i mod the length of the fallback list.
C33_CleanedAndPadded ==
    Normalized =>
        LET expected == ExpectedBeforeCoverage
        IN  /\ BeforeCoverage = expected
            /\ SubSeq(textResponse.words, 1, 45) = SubSeq(expected, 1, 45)

\* "! q" has been normalized: the token before the blank is empty and is
\* dropped, "q" is the one token kept, the padding starts at the second
\* fallback word.
C33_Witness ==
    /\ Normalized
    /\ ~generation.throws
    /\ generation.text = <<"!", " ", "q">>
    /\ BeforeCoverage[1] = <<"q">>
    /\ BeforeCoverage[2] = fallbackWords[2]
    /\ textResponse.words[1] = <<"q">>

\* C34: the coverage step overwrites only at the indices 45 to 54 and never
\* appends: the list has 90 tokens before and after it, and every token at
\* an index outside 45..54 (the elements 1 to 45 and 56 to 90 of the
\* sequences) is the one of before, whatever the random draws.
C34_OnlyMiddleSlotsOverwritten ==
    Normalized =>
        LET before == BeforeCoverage
            words == textResponse.words
        IN  /\ Len(before) = 90
            /\ Len(words) = 90
            /\ SubSeq(words, 1, 45) = SubSeq(before, 1, 45)
            /\ SubSeq(words, 56, 90) = SubSeq(before, 56, 90)

\* A text without "b" and "x" has been normalized and the coverage step has
\* overwritten the tokens at the indices 45 and 54.
C34_Witness ==
    /\ Normalized
    /\ generation.text = NoBNoX
    /\ textResponse.words[46] # BeforeCoverage[46]
    /\ textResponse.words[55] # BeforeCoverage[55]
\* The part of C35 about the recorder with the text it was mounted with:
\* the word index stays within 0 and the number of words and gets there
\* only by a space after a typed character of the last word.
C35_WordIndexWithinText ==
    /\ [](currentWordIndex \in 0..Len(wordsOf(currentText)))
    /\ [][(currentWordIndex' >= Len(wordsOf(currentText')) /\ currentWordIndex' # currentWordIndex) =>
              /\ currentWordIndex = Len(wordsOf(currentText)) - 1
              /\ Len(typedAt(typedChars, currentWordIndex)) > 0
              /\ keystrokesRef'[Len(keystrokesRef')].key = " "]_vars

\* C35: every session handed to the scorer has 0 <= completedWords <=
\* totalWords, and the word index of the recorder is never below 0 or above
\* the number of words of the text.
C35_CompletedWithinTotal ==
    /\ \A i \in 1..Len(analyses) :
          /\ 0 <= analyses[i].body.completedWords
          /\ analyses[i].body.completedWords <= analyses[i].body.totalWords
    /\ RecorderRendered => currentWordIndex \in 0..Len(wordsOf(currentText))
(***************************************************************************)
(* Properties of the cursor of the recorder.                               *)
(***************************************************************************)
\* The characters typed in word w (from 0) of an array of typed characters.
TypedIn(typed, w) == IF w + 1 \in DOMAIN typed THEN typed[w + 1] ELSE <<>>

\* A Backspace is pressed in a started session.
BackspacePressed ==
    /\ RecorderRendered
    /\ hasStarted
    /\ timeLeft > 0
    /\ handleKeyDown("Backspace")

\* C36: a Backspace in a started session appends one keystroke with empty
\* char, empty expected and isCorrect true, so that the scorer's
\* totalKeystrokes and correctKeystrokes both go up by one; with the char
\* index above 0 it removes the last typed character of the current word
\* and decrements the char index, with the char index 0 and the word index
\* above 0 it moves to the previous word with the char index at the number
\* of characters typed there, and at word 0, char 0 it leaves the cursor and
\* the typed characters as they are.
C36_BackspaceRecordedAndMoves ==
    [][BackspacePressed =>
          LET last == keystrokesRef'[Len(keystrokesRef')]
              here == TypedIn(typedChars, currentWordIndex)
          IN  /\ Len(keystrokesRef') = Len(keystrokesRef) + 1
              /\ SubSeq(keystrokesRef', 1, Len(keystrokesRef)) = keystrokesRef
              /\ last.key = "Backspace"
              /\ last.char = ""
              /\ last.expected = ""
              /\ last.isCorrect
              /\ totalKeystrokes(keystrokesRef') = totalKeystrokes(keystrokesRef) + 1
              /\ correctKeystrokes(keystrokesRef') = correctKeystrokes(keystrokesRef) + 1
              /\ \A w \in 0..Len(typedChars) :
                    w # currentWordIndex => TypedIn(typedChars', w) = TypedIn(typedChars, w)
              /\ IF currentCharIndex > 0
                 THEN /\ currentWordIndex' = currentWordIndex
                      /\ currentCharIndex' = currentCharIndex - 1
                      /\ Len(here) > 0
                      /\ TypedIn(typedChars', currentWordIndex) = SubSeq(here, 1, Len(here) - 1)
                 ELSE IF currentWordIndex > 0
                 THEN /\ currentWordIndex' = currentWordIndex - 1
                      /\ currentCharIndex' = Len(TypedIn(typedChars, currentWordIndex - 1))
                      /\ TypedIn(typedChars', currentWordIndex) = here
                 ELSE /\ currentWordIndex' = currentWordIndex
                      /\ currentCharIndex' = currentCharIndex
                      /\ TypedIn(typedChars', currentWordIndex) = here]_vars

\* A Backspace pressed at the start of the second word has been recorded
\* and has moved the cursor behind the character typed in the first word.
C36_Witness ==
    /\ hasStarted
    /\ Len(keystrokesRef) = 3
    /\ keystrokesRef[3].key = "Backspace"
    /\ keystrokesRef[3].isCorrect
    /\ keystrokesRef[3].wordIndex = 1
    /\ keystrokesRef[3].charIndex = 0
    /\ currentWordIndex = 0
    /\ currentCharIndex = 1
    /\ Len(TypedIn(typedChars, 0)) = 1

\* A space is pressed in a started session while the current word has no
\* typed character.
SpacePressedOnUntypedWord ==
    /\ RecorderRendered
    /\ hasStarted
    /\ timeLeft > 0
    /\ Len(TypedIn(typedChars, currentWordIndex)) = 0
    /\ handleKeyDown(" ")

\* C37: in a started session the char index is the number of characters
\* typed in the current word, no word after the current one has a typed
\* character and every word before it has at least one; a space pressed
\* while the current word has no typed character records nothing and does
\* not advance.
C37_CursorMatchesTyped ==
    /\ [](hasStarted =>
            /\ currentCharIndex = Len(TypedIn(typedChars, currentWordIndex))
            /\ \A w \in 0..Len(typedChars) :
                  /\ w > currentWordIndex => Len(TypedIn(typedChars, w)) = 0
                  /\ w < currentWordIndex => Len(TypedIn(typedChars, w)) > 0)
    /\ [][SpacePressedOnUntypedWord =>
              UNCHANGED <<keystrokesRef, currentWordIndex, currentCharIndex>>]_vars

\* The typist went back from the second word and took back the character
\* of the first: the cursor is at the start of the first word, and no word
\* holds a typed character.
C37_Witness ==
    /\ hasStarted
    /\ Len(keystrokesRef) = 4
    /\ keystrokesRef[2].key = " "
    /\ keystrokesRef[3].key = "Backspace"
    /\ keystrokesRef[4].key = "Backspace"
    /\ currentWordIndex = 0
    /\ currentCharIndex = 0
    /\ Len(typedChars) = 2
    /\ \A w \in 0..1 : Len(TypedIn(typedChars, w)) = 0
====
